---- MODULE Spec2Model ----
(***************************************************************************)
(* Model of the note draft poster.                                         *)
(*                                                                         *)
(*   scripts/note_draft_poster.py           the API-driven variant:        *)
(*       safe_post_to_note -> post_to_note -> get_note_cookies,            *)
(*       create_article, upload_image, update_article_draft, the last      *)
(*       three wrapped by the rate_limited_request decorator.              *)
(*   scripts/note_draft_poster_selenium.py  the UI-driven variant:         *)
(*       post_to_note_selenium, Steps 1..10 and its finally block.         *)
(*                                                                         *)
(* One behaviour is one run of one variant.  The platform (note.com) and   *)
(* the browser are the environment: every response, every element lookup   *)
(* and every fault of an unprotected driver call is a nondeterministic     *)
(* choice.                                                                 *)
(***************************************************************************)
EXTENDS Integers, Sequences, FiniteSets, TLC

(***************************************************************************)
(* Program constants (note_draft_poster.py, lines 44..46).  The two floats *)
(* 2.0 are whole numbers and are kept as integers (seconds).               *)
(***************************************************************************)
REQUEST_INTERVAL == 2
MAX_RETRIES == 3
RETRY_BACKOFF == 2

(***************************************************************************)
(* Bounds of the environment.                                              *)
(***************************************************************************)
\* HTTP status codes the platform answers with: the two codes the code
\* accepts, a 2xx code it does not accept, one client error, and "too many
\* requests".
HttpCodes == {200, 201, 204, 400, 429}

RECURSIVE Pow(_, _)
Pow(b, n) == IF n = 0 THEN 1 ELSE b * Pow(b, n - 1)

\* The codes tested by `response.status_code in [200, 201]`.
SuccessCodes == {200, 201}

(***************************************************************************)
(* Exceptions.  cls is the Python class that decides which except clause   *)
(* matches; status is the HTTP status of an HTTPError (0 otherwise); msg   *)
(* names the raise statement; detail is what its message interpolates.     *)
(***************************************************************************)
NoError == [cls |-> "none", status |-> 0, msg |-> "", detail |-> <<>>]
Err(c, s, m, d) == [cls |-> c, status |-> s, msg |-> m, detail |-> d]
\* response.raise_for_status() on a 4xx/5xx response.
HTTPError(s) == Err("HTTPError", s, "", <<>>)
\* session.post / session.put failed below HTTP (ConnectionError, Timeout ...).
TransportError == Err("RequestException", 0, "transport", <<>>)
\* Response.ok, which is also the truth value of a Response object.
ResponseOk(http) == http < 400

VARIABLES
    variant,      \* "api": safe_post_to_note; "ui": post_to_note_selenium
    image,        \* image_path: "none" | "missing" (no such file) | "present"
    headless,     \* the headless argument
    pc,           \* position of the run
    driver,       \* the browser: "none" | "open" | "quit"
    cookies,      \* TRUE once the cookie dict was harvested by get_note_cookies
    rl_fn,        \* the function the running rate_limited_request wrapper wraps
    rl_pc,        \* wrapper: "idle" | "invoke" | "returned" | "raised"
    attempt,      \* wrapper: the loop variable of `for attempt in range(MAX_RETRIES)`
    sleeps,       \* wrapper: the time.sleep calls of the running call, in order
    outcomes,     \* wrapper: the outcome of each invocation of the wrapped work
    last_error,   \* wrapper: its local last_error
    rl_error,     \* wrapper: the exception the call raised
    rl_value,     \* wrapper: what the call returned ("value" | "None" | "")
    cr_i,         \* create_article: index into payloads_to_try (1..3)
    cr_last,      \* create_article: its local last_error (<<>> or <<attempt>>)
    requests,     \* every request sent to the platform, in order
    answers,      \* the platform's answer to each creation request, in order
    platform,     \* the platform's article records: platform[id] is the status
    article_id,   \* post_to_note: article_id (0: none yet)
    image_key,    \* post_to_note: TRUE when upload_image returned a key
    result,       \* "running" | "url" | "False" | "None" | "raised"
    surfaced,     \* the exception caught at the run boundary
    ui,           \* the UI-driven run's locals and the editor's state
    login,        \* the login step of either variant: lookups, submit, page
    rs,           \* one selector resolution: candidate list, page, loop state
    fx            \* one application of a function: its input and its output

apiVars == <<cookies, rl_fn, rl_pc, attempt, sleeps, outcomes, last_error,
             rl_error, rl_value, cr_i, cr_last, requests, answers, platform,
             article_id, image_key>>
rlVars == <<rl_fn, rl_pc, attempt, sleeps, outcomes, last_error, rl_error, rl_value>>
vars == <<variant, image, headless, pc, driver, result, surfaced, ui, login, rs, fx,
          cookies, rl_fn, rl_pc, attempt, sleeps, outcomes, last_error,
          rl_error, rl_value, cr_i, cr_last, requests, answers, platform,
          article_id, image_key>>

(***************************************************************************)
(* safe_post_to_note's except clauses: whatever post_to_note raises is     *)
(* caught, logged, and turned into the return value False.                 *)
(***************************************************************************)
SafeCatch_ReturnsTrue(e) ==
    /\ pc' = "done"
    /\ result' = "True"
    /\ surfaced' = e
SafeCatch_ReturnsNone(e) ==
    /\ pc' = "done"
    /\ result' = "None"
    /\ surfaced' = e
SafeCatch(e) ==
    /\ pc' = "done"
    /\ result' = "False"
    /\ surfaced' = e

(***************************************************************************)
(* rate_limited_request.wrapper                                            *)
(***************************************************************************)
Sleep(k, d) == [kind |-> k, dur |-> d]

\* Mutant of Retryable: every HTTPError is retried, whatever its status.
Retryable_AnyHTTPError(e) ==
    \/ e.cls = "HTTPError"
    \/ e.cls = "RequestException"

\* The failures the wrapper retries: `except HTTPError` with status 429, and
\* `except RequestException` (reached only by exceptions that are no
\* HTTPError: the first matching clause handles an exception).
Retryable(e) ==
    \/ e.cls = "HTTPError" /\ e.status = 429
    \/ e.cls = "RequestException"

\* Mutants of BackoffWait: a linear wait, a constant wait, and an exponent
\* that is one too large.
BackoffWait_Linear(a) == REQUEST_INTERVAL * RETRY_BACKOFF * a
BackoffWait_Constant(a) == REQUEST_INTERVAL
BackoffWait_NextPower(a) == REQUEST_INTERVAL * Pow(RETRY_BACKOFF, a + 1)

\* wait_time = REQUEST_INTERVAL * (RETRY_BACKOFF ** attempt)
BackoffWait(a) == REQUEST_INTERVAL * Pow(RETRY_BACKOFF, a)

\* Mutant of RLEnter: the pacing sleep is left out.
RLEnter_NoPacing(fn) ==
    /\ rl_fn' = fn
    /\ rl_pc' = "invoke"
    /\ attempt' = 0
    /\ sleeps' = <<>>
    /\ outcomes' = <<>>
    /\ last_error' = NoError
    /\ rl_error' = NoError
    /\ rl_value' = ""

\* Entry of the wrapper: time.sleep(REQUEST_INTERVAL); last_error = None; and
\* the loop starts with attempt = 0.
RLEnter(fn) ==
    /\ rl_fn' = fn
    /\ rl_pc' = "invoke"
    /\ attempt' = 0
    /\ sleeps' = <<Sleep("pacing", REQUEST_INTERVAL)>>
    /\ outcomes' = <<>>
    /\ last_error' = NoError
    /\ rl_error' = NoError
    /\ rl_value' = ""

\* `return func(*args, **kwargs)`: the work returned.
WrapperReturn ==
    /\ rl_pc' = "returned"
    /\ rl_value' = "value"
    /\ outcomes' = Append(outcomes, NoError)
    /\ UNCHANGED <<rl_fn, attempt, sleeps, last_error, rl_error>>

\* Mutant of AfterLoop: the loop's last failure is dropped and None returned.
AfterLoop_ReturnsNone(le) ==
    /\ rl_pc' = "returned"
    /\ rl_error' = rl_error
    /\ rl_value' = "None"
    /\ UNCHANGED <<pc, result, surfaced>>

\* What follows the loop: `if last_error: raise last_error` / `return None`.
AfterLoop(le) ==
    IF le # NoError
    THEN /\ rl_pc' = "raised"
         /\ rl_error' = le
         /\ rl_value' = rl_value
         /\ SafeCatch(le)
    ELSE /\ rl_pc' = "returned"
         /\ rl_error' = rl_error
         /\ rl_value' = "None"
         /\ UNCHANGED <<pc, result, surfaced>>

\* The work raised e in iteration `attempt` of the loop.
WrapperExcept(e) ==
    /\ outcomes' = Append(outcomes, e)
    /\ rl_fn' = rl_fn
    /\ IF Retryable(e)
       THEN /\ sleeps' = Append(sleeps, Sleep("backoff", BackoffWait(attempt)))
            /\ last_error' = e
            /\ attempt' = attempt + 1
            /\ IF attempt + 1 < MAX_RETRIES
               THEN /\ rl_pc' = "invoke"
                    /\ UNCHANGED <<rl_error, rl_value, pc, result, surfaced>>
               ELSE AfterLoop(e)
       ELSE /\ rl_pc' = "raised"
            /\ rl_error' = e
            /\ SafeCatch(e)
            /\ UNCHANGED <<sleeps, last_error, attempt, rl_value>>

(***************************************************************************)
(* The platform's answers.  http = 0 stands for a request that raised      *)
(* below HTTP; body tells whether response.json() yields a JSON object.    *)
(***************************************************************************)
Responses ==
    {[http |-> h, body |-> "json"] : h \in HttpCodes}
    \cup {[http |-> h, body |-> "bad"] : h \in {c \in HttpCodes : ResponseOk(c)}}
    \cup {[http |-> 0, body |-> "none"]}

\* The answers to a request whose response body the code never reads.
StatusResponses == {r \in Responses : r.body # "bad"}

\* Mutant of get_session: the session is left without the cookies.
get_session_NoCookies(c) == FALSE

\* get_session(cookies): a new requests.Session whose cookie jar is filled
\* from the dict; the result tells whether the jar holds the harvested set.
\* Every invocation of create_article, upload_image and update_article_draft
\* starts with `session = get_session(cookies)`.
get_session(c) == c

\* A request as sent: the operation, the shape of its JSON payload, the
\* "status" field of the payload, the article it addresses (0: none), and
\* the cookies of the session that sends it.
Request(op, shape, status, id) ==
    [op |-> op, shape |-> shape, status |-> status, id |-> id,
     auth |-> get_session(cookies)]

\* The answer to a creation request; id is the record the platform created
\* (0: none).
Answer(resp, id) == [http |-> resp.http, body |-> resp.body, id |-> id]

(***************************************************************************)
(* A) get_note_cookies                                                     *)
(***************************************************************************)
\* raise Exception("...") of get_note_cookies; m names the message.
LoginError_Timeout(m) == Err("TimeoutException", 0, m, <<>>)
LoginError(m) == Err("Exception", 0, m, <<>>)

\* The three lookups of the login form, in the order of the code.
LoginFields == {"email", "password", "button"}

\* What the login interaction can end in, once the browser is open: a lookup
\* that finds no element, a WebDriver fault before or after the click on the
\* login button, or the click followed by the check of the resulting page.
LoginOutcomes ==
    LoginFields \cup {"fault_before_submit", "fault_after_submit", "submitted"}

\* login records the login step of the run (both variants):
\*   submits      clicks on the login button
\*   missing      the field whose lookup found no element ("" none)
\*   lookup       how that lookup ended: "None" (the loops leave the
\*                variable None) | "TimeoutException" (wait.until raised it
\*                out of the lookup) | "" (no lookup failed)
\*   at_login     after the click: "login" in driver.current_url.lower()
\*   error_shown  after the click: the page has an element matching
\*                .error-message, .alert-danger
\*   outcome      "" | "Authenticated" | "LoginFailed" | "Fault"
LoginInit ==
    [submits |-> 0, missing |-> "", lookup |-> "", at_login |-> FALSE,
     error_shown |-> FALSE, outcome |-> ""]

\* `if "login" in driver.current_url.lower(): ... raise Exception(...)`.  The
\* error element is looked up only inside the branch, for the log line.
LoginCheck_ErrorIndicator(at_login, error_shown) ==
    IF at_login \/ error_shown THEN "LoginFailed" ELSE "Authenticated"
LoginCheck_AlwaysAuthenticated(at_login, error_shown) == "Authenticated"
LoginCheck(at_login, error_shown) ==
    IF at_login THEN "LoginFailed" ELSE "Authenticated"

\* driver = webdriver.Chrome(options=options): the browser starts, or the
\* call raises and the finally block finds driver = None.
APIOpenBrowser ==
    /\ variant = "api" /\ pc = "start"
    /\ \E started \in BOOLEAN :
         IF started
         THEN /\ driver' = "open"
              /\ pc' = "login"
              /\ UNCHANGED <<result, surfaced>>
         ELSE /\ driver' = driver
              /\ SafeCatch(Err("WebDriverException", 0, "chrome", <<>>))
    /\ UNCHANGED <<variant, image, headless, login, rs, fx, ui>>
    /\ UNCHANGED apiVars

\* The rest of get_note_cookies: the login interaction, the check of the
\* resulting URL, the harvest of the cookies, and `finally: driver.quit()`.
\* Each lookup loop swallows what wait.until raises (`except: continue`) and
\* leaves its variable None when no selector matched; `if not email_input:
\* raise Exception(...)` follows.
APILogin ==
    /\ variant = "api" /\ pc = "login"
    /\ driver' = "quit"
    /\ \E o \in LoginOutcomes, at \in BOOLEAN, err \in BOOLEAN :
         CASE o \in LoginFields ->
                /\ login' = [login EXCEPT !.missing = o, !.lookup = "None",
                                          !.outcome = "Fault"]
                /\ cookies' = cookies
                /\ SafeCatch(LoginError(o \o "_not_found"))
           [] o = "fault_before_submit" ->
                /\ login' = [login EXCEPT !.outcome = "Fault"]
                /\ cookies' = cookies
                /\ SafeCatch(Err("WebDriverException", 0, "driver", <<>>))
           [] o = "fault_after_submit" ->
                /\ login' = [login EXCEPT !.submits = @ + 1, !.outcome = "Fault"]
                /\ cookies' = cookies
                /\ SafeCatch(Err("WebDriverException", 0, "driver", <<>>))
           [] o = "submitted" ->
                /\ login' = [login EXCEPT !.submits = @ + 1, !.at_login = at,
                                          !.error_shown = err,
                                          !.outcome = LoginCheck(at, err)]
                /\ IF LoginCheck(at, err) = "Authenticated"
                   THEN /\ cookies' = TRUE
                        /\ pc' = "create"
                        /\ UNCHANGED <<result, surfaced>>
                   ELSE /\ cookies' = cookies
                        /\ SafeCatch(LoginError("login_failed"))
    /\ UNCHANGED <<variant, image, headless, rs, fx, ui>>
    /\ UNCHANGED <<rl_fn, rl_pc, attempt, sleeps, outcomes, last_error,
                   rl_error, rl_value, cr_i, cr_last, requests, answers, platform,
                   article_id, image_key>>

(***************************************************************************)
(* C) create_article                                                       *)
(***************************************************************************)
\* payloads_to_try: the three request shapes, in the order of the list.
payloads_to_try ==
    << [shape |-> "note", status |-> "draft"],
       [shape |-> "flat", status |-> "draft"],
       [shape |-> "text_note", status |-> "draft"] >>

\* What one iteration of the payload loop leaves in last_error: the response
\* (`last_error = response`) or the exception caught (`last_error = e`).
Attempt(shape, kind, http, exc) ==
    [shape |-> shape, kind |-> kind, http |-> http, exc |-> exc]

\* The truth value of last_error in `if last_error:`: an exception object is
\* true, a Response object is true exactly when it is ok.
Truthy(a) == a.kind = "exception" \/ ResponseOk(a.http)

\* Mutant of CreateFailure: `if last_error is not None:` in place of the
\* truth test.
CreateFailure_NotNone(last) ==
    IF last # <<>>
    THEN Err("Exception", 0, "create_failed", <<last[1]>>)
    ELSE Err("Exception", 0, "create_failed", <<>>)

\* The two raise statements that end create_article when no payload was
\* accepted; last is <<>> (None) or <<a>>.
CreateFailure(last) ==
    IF last # <<>> /\ Truthy(last[1])
    THEN Err("Exception", 0, "create_failed", <<last[1]>>)
    ELSE Err("Exception", 0, "create_failed", <<>>)

\* create_article(...) is called: the wrapper is entered.
CallCreate ==
    /\ variant = "api" /\ pc = "create" /\ rl_pc = "idle"
    /\ RLEnter("create_article")
    /\ cr_i' = 1
    /\ cr_last' = <<>>
    /\ UNCHANGED <<variant, image, headless, login, rs, fx, pc, driver, result, surfaced, ui,
                   cookies, requests, answers, platform, article_id, image_key>>

\* One iteration of `for i, payload in enumerate(payloads_to_try)`.
CreateSend ==
    /\ variant = "api" /\ pc = "create" /\ rl_pc = "invoke"
    /\ rl_fn = "create_article"
    /\ cr_i \in 1..Len(payloads_to_try)
    /\ \E resp \in Responses :
         LET payload == payloads_to_try[cr_i]
             created == resp.http \in SuccessCodes
             newid   == Len(platform) + 1
             out     == IF resp.http = 0
                        THEN Attempt(payload.shape, "exception", 0, "RequestException")
                        ELSE IF created
                        THEN Attempt(payload.shape, "exception", resp.http, "JSONDecodeError")
                        ELSE Attempt(payload.shape, "status", resp.http, "")
         IN  /\ platform' = IF created THEN Append(platform, payload.status)
                                       ELSE platform
             /\ requests' = Append(requests,
                    Request("create", payload.shape, payload.status, 0))
             /\ answers' = Append(answers,
                    Answer(resp, IF created THEN newid ELSE 0))
             /\ IF created /\ resp.body = "json"
                THEN /\ article_id' = newid
                     /\ WrapperReturn
                     /\ UNCHANGED <<cr_i, cr_last, pc, result, surfaced>>
                ELSE /\ article_id' = article_id
                     /\ cr_last' = <<out>>
                     /\ IF cr_i < Len(payloads_to_try)
                        THEN /\ cr_i' = cr_i + 1
                             /\ UNCHANGED rlVars
                             /\ UNCHANGED <<pc, result, surfaced>>
                        ELSE /\ cr_i' = cr_i
                             /\ WrapperExcept(CreateFailure(<<out>>))
    /\ UNCHANGED <<variant, image, headless, login, rs, fx, driver, ui, cookies, image_key>>

(***************************************************************************)
(* C) upload_image                                                         *)
(***************************************************************************)
\* upload_image(...) is called (image_path given), or Step 3 is skipped and
\* update_article_draft(...) is called.
\* `if image_path:` after create_article returned.
StepAfterCreate_SkipsUpload(img) == "update"
StepAfterCreate(img) == IF img # "none" THEN "upload" ELSE "update"

CallNext ==
    /\ variant = "api" /\ rl_pc = "returned"
    /\ \/ /\ pc = "create" /\ StepAfterCreate(image) = "upload"
          /\ pc' = "upload"
          /\ RLEnter("upload_image")
       \/ /\ \/ pc = "create" /\ StepAfterCreate(image) = "update"
             \/ pc = "upload"
          /\ pc' = "update"
          /\ RLEnter("update_article_draft")
    /\ UNCHANGED <<variant, image, headless, login, rs, fx, driver, result, surfaced, ui,
                   cookies, cr_i, cr_last, requests, answers, platform,
                   article_id, image_key>>

\* One invocation of upload_image by the wrapper.  response.json() on a body
\* that is no JSON raises requests' JSONDecodeError, which is a
\* RequestException in requests >= 2.27 and a plain ValueError before.
UploadInvoke ==
    /\ variant = "api" /\ pc = "upload" /\ rl_pc = "invoke"
    /\ rl_fn = "upload_image"
    /\ IF image = "missing"
       THEN /\ WrapperExcept(Err("FileNotFoundError", 0, "image", <<>>))
            /\ UNCHANGED <<requests, image_key>>
       ELSE \E resp \in Responses, jsonErr \in {"RequestException", "ValueError"} :
            /\ requests' = Append(requests, Request("upload", "multipart", "", 0))
            /\ IF resp.http = 0
               THEN WrapperExcept(TransportError) /\ UNCHANGED image_key
               ELSE IF resp.http \notin SuccessCodes /\ ~ResponseOk(resp.http)
               THEN WrapperExcept(HTTPError(resp.http)) /\ UNCHANGED image_key
               ELSE IF resp.body = "bad"
               THEN WrapperExcept(Err(jsonErr, 0, "json", <<>>)) /\ UNCHANGED image_key
               ELSE /\ image_key' = TRUE
                    /\ WrapperReturn
                    /\ UNCHANGED <<pc, result, surfaced>>
    /\ UNCHANGED <<variant, image, headless, login, rs, fx, driver, ui, cookies, cr_i, cr_last,
                   answers, platform, article_id>>

(***************************************************************************)
(* C) update_article_draft                                                 *)
(***************************************************************************)
\* Mutant of UpdatePayload: the update publishes.
UpdatePayload_Published(key) ==
    [shape |-> "flat", status |-> "published", eyecatch |-> key]

\* The payload of the PUT request.
UpdatePayload(key) == [shape |-> "flat", status |-> "draft", eyecatch |-> key]

\* One invocation of update_article_draft by the wrapper.
UpdateInvoke ==
    /\ variant = "api" /\ pc = "update" /\ rl_pc = "invoke"
    /\ rl_fn = "update_article_draft"
    /\ \E resp \in StatusResponses :
         LET payload == UpdatePayload(image_key)
         IN  /\ requests' = Append(requests,
                    Request("update", payload.shape, payload.status, article_id))
             /\ IF resp.http = 0
                THEN WrapperExcept(TransportError) /\ UNCHANGED platform
                ELSE IF resp.http \notin SuccessCodes /\ ~ResponseOk(resp.http)
                THEN WrapperExcept(HTTPError(resp.http)) /\ UNCHANGED platform
                ELSE /\ platform' = [platform EXCEPT ![article_id] = payload.status]
                     /\ WrapperReturn
                     /\ UNCHANGED <<pc, result, surfaced>>
    /\ UNCHANGED <<variant, image, headless, login, rs, fx, driver, ui, cookies, cr_i, cr_last,
                   answers, article_id, image_key>>

(***************************************************************************)
(* D) post_to_note, Step 5, and safe_post_to_note's `return result is not  *)
(* None`.                                                                  *)
(***************************************************************************)
APIFinish ==
    /\ variant = "api" /\ pc = "update" /\ rl_pc = "returned"
    /\ pc' = "done"
    /\ result' = "True"
    /\ UNCHANGED <<variant, image, headless, login, rs, fx, driver, surfaced, ui>>
    /\ UNCHANGED apiVars

(***************************************************************************)
(* post_to_note_selenium (note_draft_poster_selenium.py)                   *)
(*                                                                         *)
(* ui holds the function's locals and what the run did to the editor:      *)
(*   title, body   "none" | "found" | "written"                            *)
(*   uploaded      the thumbnail file was handed to the file input         *)
(*   publish_clicked, paid_selected, price_set, area_setting_clicked,      *)
(*   confirmed, published      the flags of Steps 6..10                    *)
(*   manual        the run asked for manual completion (Step 10)           *)
(*   clicks        the publish controls clicked, in order                  *)
(*   status        the article on the platform: "none" | "draft" |         *)
(*                 "published"; the editor keeps what is typed as a draft, *)
(*                 and a click on a final publish control publishes it     *)
(*   media         Step 5: "" (not reached) | "absent" (no path, or no     *)
(*                 file at the path) | "failed" | "uploaded"               *)
(*   failed_at     the step that ended the run with `return None` ("" none) *)
(*   ret           the value of the return statement executed ("" none)    *)
(***************************************************************************)
UIInit ==
    [text_note_clicked |-> FALSE,
     title |-> "none", body |-> "none", uploaded |-> FALSE, media |-> "",
     failed_at |-> "",
     publish_clicked |-> FALSE, paid_selected |-> FALSE, price_set |-> FALSE,
     area_setting_clicked |-> FALSE, confirmed |-> FALSE, published |-> FALSE,
     manual |-> FALSE, clicks |-> <<>>, status |-> "none", ret |-> ""]

\* The function has no parameter by which its caller could ask for
\* publication: (email, password, title, markdown_content, image_path,
\* headless).  No run is started with a publish request.
publishRequested == FALSE

\* The three except clauses of the function: each logs and returns None, and
\* the finally block runs next.  u is ui as the failing step left it.
UIExcept(u) ==
    /\ ui' = [u EXCEPT !.ret = "None", !.failed_at = pc]
    /\ pc' = "ui_finally"

UIFrame == UNCHANGED <<variant, image, headless, login, rs, fx, result, surfaced>> /\ UNCHANGED apiVars

\* driver = webdriver.Chrome(options=options)
UIOpenBrowser ==
    /\ variant = "ui" /\ pc = "start"
    /\ \E started \in BOOLEAN :
         IF started
         THEN driver' = "open" /\ pc' = "ui_login" /\ ui' = ui
         ELSE driver' = driver /\ UIExcept(ui)
    /\ UIFrame

\* `if "login" in driver.current_url.lower(): ... return None`: the URL is
\* the only thing the step looks at.
UILoginCheck(at_login, error_shown) ==
    IF at_login THEN "LoginFailed" ELSE "Authenticated"

\* Step 1: the three wait.until lookups, the click on the login button and
\* the check of the resulting URL.  Every call of the step is unprotected: a
\* lookup that finds nothing raises TimeoutException out of wait.until, and
\* that or a WebDriverException before or after the click ends the run in an
\* except clause.
UILogin ==
    /\ variant = "ui" /\ pc = "ui_login"
    /\ \E o \in LoginOutcomes, at \in BOOLEAN, err \in BOOLEAN :
         CASE o \in LoginFields ->
                /\ login' = [login EXCEPT !.missing = o,
                                          !.lookup = "TimeoutException",
                                          !.outcome = "Fault"]
                /\ UIExcept(ui)
           [] o = "fault_before_submit" ->
                /\ login' = [login EXCEPT !.outcome = "Fault"]
                /\ UIExcept(ui)
           [] o = "fault_after_submit" ->
                /\ login' = [login EXCEPT !.submits = @ + 1, !.outcome = "Fault"]
                /\ UIExcept(ui)
           [] o = "submitted" ->
                /\ login' = [login EXCEPT !.submits = @ + 1, !.at_login = at,
                                          !.error_shown = err,
                                          !.outcome = UILoginCheck(at, err)]
                /\ IF UILoginCheck(at, err) = "Authenticated"
                   THEN ui' = ui /\ pc' = "ui_compose"
                   ELSE UIExcept(ui)
    /\ UNCHANGED driver
    /\ UNCHANGED <<variant, image, headless, rs, fx, result, surfaced>>
    /\ UNCHANGED apiVars

\* Step 2: open the editor (driver.get and driver.current_url unprotected).
UICompose ==
    /\ variant = "ui" /\ pc = "ui_compose"
    /\ \E fault \in BOOLEAN, clicked \in BOOLEAN :
         IF fault
         THEN UIExcept(ui)
         ELSE /\ ui' = [ui EXCEPT !.text_note_clicked = clicked]
              /\ pc' = "ui_title"
    /\ UNCHANGED driver
    /\ UIFrame

\* Step 3: the title field.  driver.current_url (line 240) and the calls on
\* the element found (lines 313..318) are unprotected; the lookups are not.
\* A title field that is not found is logged and the run goes on.
UITitle ==
    /\ variant = "ui" /\ pc = "ui_title"
    /\ \E o \in {"fault", "not_found", "found_fault", "written"} :
         CASE o = "fault" -> UIExcept(ui)
           [] o = "not_found" -> ui' = ui /\ pc' = "ui_body"
           [] o = "found_fault" -> UIExcept([ui EXCEPT !.title = "found"])
           [] o = "written" ->
                /\ ui' = [ui EXCEPT !.title = "written", !.status = "draft"]
                /\ pc' = "ui_body"
    /\ UNCHANGED driver
    /\ UIFrame

\* Step 4: the body field.  The calls on the element found (lines 380..382)
\* are unprotected; writing the content is protected (the JavaScript write,
\* or its send_keys fallback whose chunks fail one by one).
UIBody ==
    /\ variant = "ui" /\ pc = "ui_body"
    /\ \E o \in {"not_found", "found_fault", "written"} :
         CASE o = "not_found" -> ui' = ui /\ pc' = "ui_media"
           [] o = "found_fault" -> UIExcept([ui EXCEPT !.body = "found"])
           [] o = "written" ->
                /\ ui' = [ui EXCEPT !.body = "written", !.status = "draft"]
                /\ pc' = "ui_media"
    /\ UNCHANGED driver
    /\ UIFrame

\* Step 5, when the file exists: the thumbnail control, the file input and
\* send_keys, all inside one try whose except clause logs a warning and goes
\* on.  o is what the try block ends in.
MediaOutcomes == {"no_control", "no_file_input", "send_fault", "uploaded"}
UIMediaStep_FaultEscapes(o) ==
    IF o = "uploaded"
    THEN /\ ui' = [ui EXCEPT !.uploaded = TRUE, !.media = "uploaded"]
         /\ pc' = "ui_step6"
    ELSE UIExcept([ui EXCEPT !.media = "failed"])
UIMediaStep(o) ==
    /\ ui' = IF o = "uploaded"
             THEN [ui EXCEPT !.uploaded = TRUE, !.media = "uploaded"]
             ELSE [ui EXCEPT !.media = "failed"]
    /\ pc' = "ui_step6"

\* Step 5: the thumbnail, only `if image_path and os.path.exists(image_path)`;
\* otherwise the step is logged as skipped.
UIMedia ==
    /\ variant = "ui" /\ pc = "ui_media"
    /\ IF image = "present"
       THEN \E o \in MediaOutcomes : UIMediaStep(o)
       ELSE ui' = [ui EXCEPT !.media = "absent"] /\ pc' = "ui_step6"
    /\ UNCHANGED driver
    /\ UIFrame

\* Step 6: look for a publish button and click the first one displayed.  The
\* step is not guarded by any request of the caller.
UIStep6 ==
    /\ variant = "ui" /\ pc = "ui_step6"
    /\ \E found \in BOOLEAN :
         IF found
         THEN /\ ui' = [ui EXCEPT !.publish_clicked = TRUE,
                                  !.clicks = Append(@, "publish_panel")]
              /\ pc' = "ui_step7"
         ELSE /\ ui' = ui
              /\ pc' = "ui_return"
    /\ UNCHANGED driver
    /\ UIFrame

\* Step 7 (`if publish_clicked:`): select the paid tier, and `if
\* paid_selected:` enter the price 480.
\* `if paid_selected:` around the price lookups; found tells whether a
\* displayed price input exists.
PriceEntered_Ungated(paid_selected, found) == found
PriceEntered(paid_selected, found) == paid_selected /\ found

UIStep7 ==
    /\ variant = "ui" /\ pc = "ui_step7"
    /\ ui.publish_clicked
    /\ \E paid \in BOOLEAN, price \in BOOLEAN :
         ui' = [ui EXCEPT !.paid_selected = paid,
                          !.price_set = PriceEntered(paid, price)]
    /\ pc' = "ui_step8"
    /\ UNCHANGED driver
    /\ UIFrame

\* Step 8: the paid-area-setting button; Step 9 runs `if area_setting_clicked:`.
UIStep8 ==
    /\ variant = "ui" /\ pc = "ui_step8"
    /\ \E found \in BOOLEAN :
         /\ ui' = [ui EXCEPT !.area_setting_clicked = found]
         /\ pc' = IF found THEN "ui_step9" ELSE "ui_step10"
    /\ UNCHANGED driver
    /\ UIFrame

\* Step 9: the confirm button of the paid line.
UIStep9 ==
    /\ variant = "ui" /\ pc = "ui_step9"
    /\ ui.area_setting_clicked
    /\ \E found \in BOOLEAN :
         ui' = [ui EXCEPT !.confirmed = found]
    /\ pc' = "ui_step10"
    /\ UNCHANGED driver
    /\ UIFrame

\* Step 10: look for a final publish control (XPath candidates, then CSS
\* candidates) and click the first one displayed; if there is none, ask for
\* manual completion and wait 30 seconds.  Every lookup and click of the
\* step is inside a try whose except clause goes on.
Step10Outcome_Raises(found) ==
    IF found # "none"
    THEN /\ ui' = [ui EXCEPT !.published = TRUE,
                             !.clicks = Append(@, "final_publish"),
                             !.status = "published"]
         /\ pc' = "ui_return"
    ELSE UIExcept(ui)
Step10Outcome(found) ==
    /\ ui' = IF found # "none"
             THEN [ui EXCEPT !.published = TRUE,
                             !.clicks = Append(@, "final_publish"),
                             !.status = "published"]
             ELSE [ui EXCEPT !.manual = TRUE]
    /\ pc' = "ui_return"

UIStep10 ==
    /\ variant = "ui" /\ pc = "ui_step10"
    /\ \E found \in {"xpath", "css", "none"} : Step10Outcome(found)
    /\ UNCHANGED driver
    /\ UIFrame

\* Lines 726..733: current_url = driver.current_url (unprotected), the final
\* log lines, and `return current_url`.
UIReturn ==
    /\ variant = "ui" /\ pc = "ui_return"
    /\ \E fault \in BOOLEAN :
         IF fault
         THEN UIExcept(ui)
         ELSE ui' = [ui EXCEPT !.ret = "url"] /\ pc' = "ui_finally"
    /\ UNCHANGED driver
    /\ UIFrame

\* The finally block: `if driver:`, and unless headless the wait for the
\* operator, of which only EOFError is caught; then driver.quit().  A fault
\* of the wait leaves the function before driver.quit() and replaces the
\* return value.
UIFinally ==
    /\ variant = "ui" /\ pc = "ui_finally"
    /\ pc' = "done"
    /\ \E wait \in {"ok", "EOFError", "fault"} :
         IF driver = "open" /\ ~headless /\ wait = "fault"
         THEN /\ driver' = driver
              /\ result' = "raised"
              /\ surfaced' = Err("KeyboardInterrupt", 0, "finally", <<>>)
         ELSE /\ driver' = IF driver = "open" THEN "quit" ELSE driver
              /\ result' = ui.ret
              /\ surfaced' = surfaced
    /\ UNCHANGED <<variant, image, headless, login, rs, fx, ui>>
    /\ UNCHANGED apiVars

(***************************************************************************)
(* Selector resolution: the loops that walk an ordered list of selectors.  *)
(*                                                                         *)
(* A page gives, for each candidate of the list, the elements its selector *)
(* matches, in document order.  An element is                              *)
(*   "hidden"   not displayed                                              *)
(*   "top"      displayed and enabled, location y <= 100                   *)
(*   "ok"       displayed and enabled, location y > 100                    *)
(*   "faulty"   a call on it raises (a stale element, a click intercepted) *)
(* A selector whose lookup raises is skipped like one that matches         *)
(* nothing, and is the empty sequence here.                                *)
(*                                                                         *)
(* rs is one resolution: the kind of list, the page, the index i of the    *)
(* candidate the loop is at, the candidates tried so far, the candidate    *)
(* and element taken (0: none), and whether the loop has ended.            *)
(***************************************************************************)
MaxElems == 2
Candidates == <<"A", "B", "C">>
ElementKinds == {"hidden", "top", "ok", "faulty"}
ListKinds == {"login_field", "displayed", "body"}

RECURSIVE SeqsUpTo(_, _)
SeqsUpTo(S, n) ==
    IF n = 0 THEN {<<>>}
    ELSE LET shorter == SeqsUpTo(S, n - 1)
         IN  shorter \cup {Append(q, x) : q \in {r \in shorter : Len(r) = n - 1}, x \in S}

Pages == [1..Len(Candidates) -> SeqsUpTo(ElementKinds, MaxElems)]

RSIdle ==
    [kind |-> "", page |-> <<>>, i |-> 0, tried |-> <<>>, cand |-> 0,
     elem |-> 0, done |-> FALSE]

\* One iteration of a loop: hit is the index of the element the iteration
\* took from the candidate's matches (0: none, the loop goes on).
RSIterate(hit) ==
    rs' = IF hit > 0
          THEN [rs EXCEPT !.tried = Append(@, rs.i), !.cand = rs.i,
                          !.elem = hit, !.done = TRUE]
          ELSE [rs EXCEPT !.tried = Append(@, rs.i), !.i = @ + 1,
                          !.done = (rs.i = Len(Candidates))]

RSFrame ==
    UNCHANGED <<variant, image, headless, pc, driver, result, surfaced, ui, login, fx>>
    /\ UNCHANGED apiVars

\* get_note_cookies, the email / password / button loops:
\* wait.until(EC.element_to_be_clickable((By.CSS_SELECTOR, selector))) looks
\* at the first element the selector matches and returns it once it is
\* displayed and enabled; otherwise the wait times out, and the bare except
\* goes on to the next selector.
WaitClickable(els) ==
    IF els # <<>> /\ els[1] \in {"top", "ok"} THEN 1 ELSE 0

ResolveLoginField ==
    /\ pc = "resolve" /\ rs.kind = "login_field" /\ ~rs.done
    /\ RSIterate(WaitClickable(rs.page[rs.i]))
    /\ RSFrame

\* post_to_note_selenium, the title and publish-button loops:
\* `for elem in elements: if elem.is_displayed(): ... break`, inside a try
\* whose except clause goes on to the next selector.
RECURSIVE ScanDisplayed(_, _)
ScanDisplayed(els, j) ==
    IF j > Len(els) THEN 0
    ELSE IF els[j] = "faulty" THEN 0
    ELSE IF els[j] \in {"top", "ok"} THEN j
    ELSE ScanDisplayed(els, j + 1)

ResolveDisplayed ==
    /\ pc = "resolve" /\ rs.kind = "displayed" /\ ~rs.done
    /\ RSIterate(ScanDisplayed(rs.page[rs.i], 1))
    /\ RSFrame

\* post_to_note_selenium, the body loop: as above, and a displayed element
\* is taken only `if location.get('y', 0) > 100`.
RECURSIVE ScanBody_NoPosition(_, _)
ScanBody_NoPosition(els, j) ==
    IF j > Len(els) THEN 0
    ELSE IF els[j] = "faulty" THEN 0
    ELSE IF els[j] \in {"top", "ok"} THEN j
    ELSE ScanBody_NoPosition(els, j + 1)
RECURSIVE ScanBody(_, _)
ScanBody(els, j) ==
    IF j > Len(els) THEN 0
    ELSE IF els[j] = "faulty" THEN 0
    ELSE IF els[j] = "ok" THEN j
    ELSE ScanBody(els, j + 1)

ResolveBody ==
    /\ pc = "resolve" /\ rs.kind = "body" /\ ~rs.done
    /\ RSIterate(ScanBody(rs.page[rs.i], 1))
    /\ RSFrame

(***************************************************************************)
(* Functions applied on their own.  fx holds the input drawn and what the  *)
(* function made of it; strings are sequences of characters.               *)
(***************************************************************************)
FXIdle == [fn |-> ""]

RECURSIVE StringsUpTo(_, _)
StringsUpTo(S, n) ==
    IF n = 0 THEN {<<>>}
    ELSE LET shorter == StringsUpTo(S, n - 1)
         IN  shorter \cup {Append(q, x) : q \in {r \in shorter : Len(r) = n - 1}, x \in S}

\* The run is not started: only fx changes.
FXStart(label) ==
    /\ variant = "ui" /\ image = "none" /\ headless = TRUE
    /\ pc = label
    /\ driver = "none" /\ cookies = FALSE
    /\ rl_fn = "" /\ rl_pc = "idle" /\ attempt = 0
    /\ sleeps = <<>> /\ outcomes = <<>>
    /\ last_error = NoError /\ rl_error = NoError /\ rl_value = ""
    /\ cr_i = 1 /\ cr_last = <<>>
    /\ requests = <<>> /\ answers = <<>> /\ platform = <<>>
    /\ article_id = 0 /\ image_key = FALSE
    /\ result = "running" /\ surfaced = NoError
    /\ ui = UIInit /\ login = LoginInit /\ rs = RSIdle

FXFrame ==
    UNCHANGED <<variant, image, headless, pc, driver, result, surfaced, ui, login, rs>>
    /\ UNCHANGED apiVars

(***************************************************************************)
(* mask_sensitive (both files) and the log calls that take a credential.   *)
(***************************************************************************)
MaxText == 6
MaskChars == {"a", "b", "c"}
Stars == <<"*", "*", "*">>

\* note_draft_poster.py: `if not text: return "***"`, `if len(text) <= 4:
\* return "***"`, `return text[:2] + "***" + text[-2:]`.
mask_sensitive_Threshold3(text) ==
    IF text = <<>> THEN Stars
    ELSE IF Len(text) <= 3 THEN Stars
    ELSE SubSeq(text, 1, 2) \o Stars \o SubSeq(text, Len(text) - 1, Len(text))
mask_sensitive(text) ==
    IF text = <<>> THEN Stars
    ELSE IF Len(text) <= 4 THEN Stars
    ELSE SubSeq(text, 1, 2) \o Stars \o SubSeq(text, Len(text) - 1, Len(text))

\* note_draft_poster_selenium.py: `if not text or len(text) <= 4`.
mask_sensitive_selenium(text) ==
    IF text = <<>> \/ Len(text) <= 4 THEN Stars
    ELSE SubSeq(text, 1, 2) \o Stars \o SubSeq(text, Len(text) - 1, Len(text))

\* A log call: the function that logs, the parameter the text is made from,
\* and the text logged.
LogEntry(fn, arg, text) == [fn |-> fn, arg |-> arg, text |-> text]

\* get_note_cookies, line 137: the only log call of the file that takes a
\* credential.
LogLoginAPI ==
    /\ pc = "mask" /\ ~fx.api_logged
    /\ fx' = [fx EXCEPT !.api_logged = TRUE,
                        !.log = Append(@, LogEntry("get_note_cookies", "email",
                                                   mask_sensitive(fx.email)))]
    /\ FXFrame

\* post_to_note_selenium, line 169: likewise.
LogLoginUI ==
    /\ pc = "mask" /\ ~fx.ui_logged
    /\ fx' = [fx EXCEPT !.ui_logged = TRUE,
                        !.log = Append(@, LogEntry("post_to_note_selenium", "email",
                                                   mask_sensitive_selenium(fx.email)))]
    /\ FXFrame

Passwords == {<<"p", "w">>, <<"p", "a", "s", "s", "w", "d">>}

InitMask ==
    /\ FXStart("mask")
    /\ \E e \in StringsUpTo(MaskChars, MaxText), pw \in Passwords :
         fx = [fn |-> "mask_sensitive", email |-> e, password |-> pw,
               log |-> <<>>, api_logged |-> FALSE, ui_logged |-> FALSE]

NextMask == LogLoginAPI \/ LogLoginUI

SpecMask == InitMask /\ [][NextMask]_vars

(***************************************************************************)
(* markdown_to_html, the heading lines (both files).                       *)
(***************************************************************************)
MaxHeadingText == 3
HeadingChars == {"x", " ", "#"}
HeadingPrefixes == << <<"#", " ">>, <<"#", "#", " ">>, <<"#", "#", "#", " ">> >>

StartsWith(line, prefix) ==
    /\ Len(line) >= Len(prefix)
    /\ SubSeq(line, 1, Len(prefix)) = prefix

Drop(line, n) == SubSeq(line, n + 1, Len(line))

\* str.strip() over the characters of the model: blanks go at both ends.
RECURSIVE LStrip(_)
LStrip(t) == IF t # <<>> /\ Head(t) = " " THEN LStrip(Tail(t)) ELSE t
RECURSIVE RStrip(_)
RStrip(t) ==
    IF t # <<>> /\ t[Len(t)] = " " THEN RStrip(SubSeq(t, 1, Len(t) - 1)) ELSE t
Strip(t) == RStrip(LStrip(t))

\* note_draft_poster.py, lines 317..337: the three startswith tests of a
\* line outside a code block, in the order of the code; other lines go on
\* to the list and paragraph branches ("other" here).
APIHeading_H1(line) ==
    IF StartsWith(line, <<"#", "#", "#", " ">>)
    THEN [tag |-> "h3", content |-> Strip(Drop(line, 4))]
    ELSE IF StartsWith(line, <<"#", "#", " ">>)
    THEN [tag |-> "h2", content |-> Strip(Drop(line, 3))]
    ELSE IF StartsWith(line, <<"#", " ">>)
    THEN [tag |-> "h1", content |-> Strip(Drop(line, 2))]
    ELSE [tag |-> "other", content |-> line]
APIHeading(line) ==
    IF StartsWith(line, <<"#", "#", "#", " ">>)
    THEN [tag |-> "h3", content |-> Strip(Drop(line, 4))]
    ELSE IF StartsWith(line, <<"#", "#", " ">>)
    THEN [tag |-> "h2", content |-> Strip(Drop(line, 3))]
    ELSE IF StartsWith(line, <<"#", " ">>)
    THEN [tag |-> "h2", content |-> Strip(Drop(line, 2))]
    ELSE [tag |-> "other", content |-> line]

\* note_draft_poster_selenium.py, lines 76..79: re.sub(r'^### (.+)$', ...)
\* and its two successors on a text of one line; (.+) needs a character
\* after the prefix.  The markers are the characters U+25BC, U+25A0, U+25C6.
HeadingMarkers == <<"DIAMOND", "SQUARE", "TRIANGLE">>
HeadingSub(line, k) ==
    IF StartsWith(line, HeadingPrefixes[k]) /\ Len(line) > Len(HeadingPrefixes[k])
    THEN <<HeadingMarkers[k], " ">> \o Drop(line, Len(HeadingPrefixes[k]))
    ELSE line
\* The three substitutions in the order of the code, and the final
\* `return text_with_markers.strip()`.
UIHeading(line) == Strip(HeadingSub(HeadingSub(HeadingSub(line, 3), 2), 1))

\* The API implementation on the text behind each of the three prefixes.
HeadingsAPI ==
    /\ pc = "headings" /\ fx.impl = ""
    /\ fx' = [fx EXCEPT !.impl = "api",
                        !.out = [k \in 1..3 |-> APIHeading(HeadingPrefixes[k] \o fx.text)]]
    /\ FXFrame

\* The UI implementation on the same three lines.
HeadingsUI ==
    /\ pc = "headings" /\ fx.impl = ""
    /\ fx' = [fx EXCEPT !.impl = "ui",
                        !.out = [k \in 1..3 |->
                                   [tag |-> "text",
                                    content |-> UIHeading(HeadingPrefixes[k] \o fx.text)]]]
    /\ FXFrame

InitHeadings ==
    /\ FXStart("headings")
    /\ \E t \in StringsUpTo(HeadingChars, MaxHeadingText) :
         fx = [fn |-> "markdown_to_html", text |-> t, impl |-> "", out |-> <<>>]

NextHeadings == HeadingsAPI \/ HeadingsUI

SpecHeadings == InitHeadings /\ [][NextHeadings]_vars

(***************************************************************************)
(* markdown_to_html of note_draft_poster_selenium.py, the link passes      *)
(* (lines 93..121).                                                        *)
(*                                                                         *)
(* The text is a sequence of tokens, each standing for a run of            *)
(* characters:                                                             *)
(*   url     a bare URL (https://...), a names it                          *)
(*   w       a word of letters                                             *)
(*   sp      a blank                                                       *)
(*   md      a Markdown link [a](b): a is its text ("t", or the name of a  *)
(*           URL when the text is that URL), b names its target            *)
(*   link    <a href="b">a</a>, as generated from md                       *)
(*   marker  __LINK_MARKER_i__, standing for the link with text a and      *)
(*           target b                                                      *)
(***************************************************************************)
MaxTokens == 3
Tok(k, a, b) == [k |-> k, a |-> a, b |-> b]
InputTokens ==
    {Tok("url", "A", ""), Tok("url", "B", ""), Tok("w", "", ""), Tok("sp", "", ""),
     Tok("md", "t", "A"), Tok("md", "A", "A"), Tok("md", "t", "B")}

\* re.sub(r'\[(.+?)\]\((https?://[^\)]+)\)', r'<a href="\2">\1</a>', text)
ConvertLinks(ts) ==
    [i \in 1..Len(ts) |-> IF ts[i].k = "md" THEN Tok("link", ts[i].a, ts[i].b) ELSE ts[i]]

\* existing_links = re.findall(r'<a href="[^"]+">.*?</a>', text), and each
\* link replaced by its marker.
MaskLinks(ts) ==
    [i \in 1..Len(ts) |-> IF ts[i].k = "link" THEN Tok("marker", ts[i].a, ts[i].b) ELSE ts[i]]

\* r'(https?://[^\s<>\"\'\)]+)': a match starts at a bare URL and runs on
\* over every character that is no blank and none of < > " ' ), that is
\* over the words, URLs and markers that follow without a blank.
RECURSIVE RunLength(_)
RunLength(ts) ==
    IF ts # <<>> /\ Head(ts).k \in {"url", "w", "marker"}
    THEN 1 + RunLength(Tail(ts))
    ELSE 0

\* The bare-URL pass: each match becomes <a href="match">match</a>.  A
\* node is a match wrapped into a link (wrap) or a token left as it is.
Node(wrap, run) == [wrap |-> wrap, run |-> run]
RECURSIVE WrapBareURLs(_)
WrapBareURLs(ts) ==
    IF ts = <<>> THEN <<>>
    ELSE IF Head(ts).k = "url"
    THEN LET n == RunLength(ts)
         IN  <<Node(TRUE, SubSeq(ts, 1, n))>> \o WrapBareURLs(SubSeq(ts, n + 1, Len(ts)))
    ELSE <<Node(FALSE, <<Head(ts)>>)>> \o WrapBareURLs(Tail(ts))

\* text_with_markers.replace(f'__LINK_MARKER_{i}__', link): every marker,
\* wherever it stands, becomes its link again.
RestoreLinks(ns) ==
    [i \in 1..Len(ns) |->
        Node(ns[i].wrap,
             [j \in 1..Len(ns[i].run) |->
                 IF ns[i].run[j].k = "marker"
                 THEN Tok("link", ns[i].run[j].a, ns[i].run[j].b)
                 ELSE ns[i].run[j]])]

\* return text_with_markers.strip()
IsBlank(n) == ~n.wrap /\ n.run[1].k = "sp"
RECURSIVE StripNodes(_)
StripNodes(ns) ==
    IF ns # <<>> /\ IsBlank(Head(ns)) THEN StripNodes(Tail(ns))
    ELSE IF ns # <<>> /\ IsBlank(ns[Len(ns)]) THEN StripNodes(SubSeq(ns, 1, Len(ns) - 1))
    ELSE ns

\* The passes, one action each, in the order of the code.
LinkPass1 ==
    /\ pc = "links" /\ fx.stage = 0
    /\ fx' = [fx EXCEPT !.stage = 1, !.toks = ConvertLinks(fx.input)]
    /\ FXFrame

LinkPass2 ==
    /\ pc = "links" /\ fx.stage = 1
    /\ fx' = [fx EXCEPT !.stage = 2, !.toks = MaskLinks(fx.toks)]
    /\ FXFrame

LinkPass3 ==
    /\ pc = "links" /\ fx.stage = 2
    /\ fx' = [fx EXCEPT !.stage = 3, !.nodes = WrapBareURLs(fx.toks)]
    /\ FXFrame

LinkPass4 ==
    /\ pc = "links" /\ fx.stage = 3
    /\ fx' = [fx EXCEPT !.stage = 4, !.nodes = StripNodes(RestoreLinks(fx.nodes))]
    /\ FXFrame

InitLinks ==
    /\ FXStart("links")
    /\ \E ts \in StringsUpTo(InputTokens, MaxTokens) :
         fx = [fn |-> "markdown_to_html", input |-> ts, stage |-> 0,
               toks |-> <<>>, nodes |-> <<>>]

NextLinks == LinkPass1 \/ LinkPass2 \/ LinkPass3 \/ LinkPass4

SpecLinks == InitLinks /\ [][NextLinks]_vars

(***************************************************************************)
(* post_to_note_selenium, Steps 3 and 4: the title field and the body      *)
(* field looked up on one page.                                            *)
(*                                                                         *)
(* A layout is the page's editable elements in document order.  An element *)
(* has a type, which decides the selectors that match it, and one of the   *)
(* states of ElementKinds:                                                 *)
(*   title_textarea   a textarea whose placeholder names the title         *)
(*   textarea         any other textarea                                   *)
(*   title_editable   a contenteditable div whose data-placeholder names   *)
(*                    the title                                            *)
(*   title_pm         the same, of class ProseMirror                       *)
(*   body_pm          a contenteditable div of class ProseMirror           *)
(*   editable         any other contenteditable div                        *)
(* A selector is the set of types it matches; first_only marks             *)
(* :first-of-type.  Selectors for classes no element of the layout carries *)
(* match nothing.                                                          *)
(***************************************************************************)
MaxLayout == 3
ElementTypes ==
    {"title_textarea", "textarea", "title_editable", "title_pm", "body_pm", "editable"}
Element(type, vis) == [type |-> type, vis |-> vis]
Layouts ==
    StringsUpTo({Element(t, v) : t \in ElementTypes, v \in ElementKinds}, MaxLayout)

Selector(types, first_only) == [types |-> types, first_only |-> first_only]

\* title_selectors followed by xpath_selectors (the second list is walked
\* only `if not title_input:`).
title_selectors ==
    << Selector({"title_textarea"}, FALSE),
       Selector({"title_textarea"}, FALSE),
       Selector({}, FALSE),
       Selector({"title_editable", "title_pm"}, FALSE),
       Selector({"title_editable", "title_pm"}, FALSE),
       Selector({}, FALSE),
       Selector({}, FALSE),
       Selector({}, FALSE),
       Selector({}, FALSE),
       Selector({"title_textarea", "textarea"}, TRUE),
       Selector({"title_pm"}, FALSE),
       Selector({"title_textarea"}, FALSE),
       Selector({}, FALSE),
       Selector({"title_editable", "title_pm"}, FALSE),
       Selector({"title_textarea", "textarea"}, FALSE) >>

body_selectors ==
    << Selector({"title_pm", "body_pm"}, FALSE),
       Selector({"body_pm", "editable"}, FALSE),
       Selector({}, FALSE),
       Selector({}, FALSE),
       Selector({}, FALSE),
       Selector({"title_editable", "title_pm", "body_pm", "editable"}, FALSE),
       Selector({}, FALSE) >>

\* driver.find_elements(By.CSS_SELECTOR, '[contenteditable="true"]')
ContentEditable == {"title_editable", "title_pm", "body_pm", "editable"}

\* driver.find_elements: the indices of the elements a selector matches, in
\* document order.
Matching(sel, layout) ==
    LET all == SelectSeq([i \in 1..Len(layout) |-> i],
                         LAMBDA i : layout[i].type \in sel.types)
    IN  IF sel.first_only /\ all # <<>> THEN <<Head(all)>> ELSE all

VisOf(idx, layout) == [k \in 1..Len(idx) |-> layout[idx[k]].vis]

\* The title loops: the first selector, in order, with a displayed element
\* (0: none).
RECURSIVE FindTitle(_, _)
FindTitle(layout, i) ==
    IF i > Len(title_selectors) THEN 0
    ELSE LET m == Matching(title_selectors[i], layout)
             hit == ScanDisplayed(VisOf(m, layout), 1)
         IN  IF hit > 0 THEN m[hit] ELSE FindTitle(layout, i + 1)

\* The body loop: as above, with the test of the position.
RECURSIVE FindBody(_, _)
FindBody(layout, i) ==
    IF i > Len(body_selectors) THEN 0
    ELSE LET m == Matching(body_selectors[i], layout)
             hit == ScanBody(VisOf(m, layout), 1)
         IN  IF hit > 0 THEN m[hit] ELSE FindBody(layout, i + 1)

\* `if not body_input:` all_editable[1] when len(all_editable) >= 2,
\* all_editable[0] when it is 1; all_editable is the sequence of indices.
FallbackBody_First(all_editable) ==
    IF Len(all_editable) >= 1 THEN all_editable[1] ELSE 0
FallbackBody(all_editable) ==
    IF Len(all_editable) >= 2 THEN all_editable[2]
    ELSE IF Len(all_editable) = 1 THEN all_editable[1]
    ELSE 0

LayoutTitle ==
    /\ pc = "layout" /\ fx.stage = "title"
    /\ fx' = [fx EXCEPT !.stage = "body", !.title = FindTitle(fx.layout, 1)]
    /\ FXFrame

LayoutBody ==
    /\ pc = "layout" /\ fx.stage = "body"
    /\ LET b == FindBody(fx.layout, 1)
       IN  fx' = IF b > 0
                 THEN [fx EXCEPT !.stage = "done", !.body = b, !.via = "list"]
                 ELSE [fx EXCEPT !.stage = "fallback"]
    /\ FXFrame

LayoutFallback ==
    /\ pc = "layout" /\ fx.stage = "fallback"
    /\ LET b == FallbackBody(Matching(Selector(ContentEditable, FALSE), fx.layout))
       IN  fx' = [fx EXCEPT !.stage = "done", !.body = b,
                            !.via = IF b > 0 THEN "fallback" ELSE "none"]
    /\ FXFrame

InitLayout ==
    /\ FXStart("layout")
    /\ \E l \in Layouts :
         fx = [fn |-> "post_to_note_selenium", layout |-> l, stage |-> "title",
               title |-> 0, body |-> 0, via |-> ""]

NextLayout == LayoutTitle \/ LayoutBody \/ LayoutFallback

SpecLayout == InitLayout /\ [][NextLayout]_vars

(***************************************************************************)
(* markdown_to_html and apply_inline_formatting of note_draft_poster.py    *)
(* (lines 285..392), line by line.  A line is a sequence of characters; a  *)
(* tag written into a line is one symbol, and so is the newline that joins *)
(* the lines of a code block.                                              *)
(***************************************************************************)
MaxMdLines == 4

\* The character U+0060, of which three open or close a code block.
BT == "BT"
Fence == <<BT, BT, BT>>
Digits == {"1", "2"}

\* The input lines: a fence, a heading, a bulleted item, a numbered item, an
\* empty line, a paragraph with emphasis, and an indented fence with an
\* info string.
MdLines ==
    { Fence,
      <<"#", " ", "h">>,
      <<"-", " ", "a">>,
      <<"1", ".", " ", "a">>,
      <<>>,
      <<"*", "a", "*">>,
      <<" ", BT, BT, BT, "p">> }

\* The first index >= from at which pat occurs in t (0: none).
IndexFrom(t, pat, from) ==
    LET S == {i \in from..(Len(t) - Len(pat) + 1) : SubSeq(t, i, i + Len(pat) - 1) = pat}
    IN  IF S = {} THEN 0 ELSE CHOOSE i \in S : \A j \in S : i <= j

\* re.sub(d(.+?)d, open \1 close, text) for a delimiter d: the leftmost d,
\* the nearest d that leaves at least one character between, and on behind
\* the match.
RECURSIVE SubPair(_, _, _, _)
SubPair(t, d, open, close) ==
    LET i == IndexFrom(t, d, 1)
        j == IF i = 0 THEN 0 ELSE IndexFrom(t, d, i + Len(d) + 1)
    IN  IF i = 0 \/ j = 0 THEN t
        ELSE SubSeq(t, 1, i - 1) \o <<open>> \o SubSeq(t, i + Len(d), j - 1) \o <<close>>
             \o SubPair(SubSeq(t, j + Len(d), Len(t)), d, open, close)

\* re.sub(r'\[(.+?)\]\((.+?)\)', r'<a href="\2">\1</a>', text)
RECURSIVE SubLink(_)
SubLink(t) ==
    LET i == IndexFrom(t, <<"[">>, 1)
        j == IF i = 0 THEN 0 ELSE IndexFrom(t, <<"]", "(">>, i + 2)
        k == IF j = 0 THEN 0 ELSE IndexFrom(t, <<")">>, j + 3)
    IN  IF k = 0 THEN t
        ELSE SubSeq(t, 1, i - 1) \o <<"<a href=\"">> \o SubSeq(t, j + 2, k - 1) \o <<"\">">>
             \o SubSeq(t, i + 1, j - 1) \o <<"</a>">> \o SubLink(SubSeq(t, k + 1, Len(t)))

\* apply_inline_formatting: bold, italic, inline code, link, in this order.
apply_inline_formatting(text) ==
    SubLink(SubPair(SubPair(SubPair(text, <<"*", "*">>, "<strong>", "</strong>"),
                            <<"*">>, "<em>", "</em>"),
                    <<BT>>, "<code>", "</code>"))

\* chr(10).join(code_content)
RECURSIVE Join(_)
Join(ls) ==
    IF ls = <<>> THEN <<>>
    ELSE IF Len(ls) = 1 THEN ls[1]
    ELSE ls[1] \o <<"\n">> \o Join(Tail(ls))

\* line.strip().startswith('```')
IsFence(line) == StartsWith(Strip(line), Fence)

\* line.strip().startswith('- ') or line.strip().startswith('* ')
IsBullet(line) ==
    StartsWith(Strip(line), <<"-", " ">>) \/ StartsWith(Strip(line), <<"*", " ">>)

\* The length of the match of r'^\d+\. ' in t (0: no match).
NumberPrefix(t) ==
    LET n == CHOOSE k \in 0..Len(t) :
                 /\ \A i \in 1..k : t[i] \in Digits
                 /\ (k < Len(t) => t[k + 1] \notin Digits)
    IN  IF n >= 1 /\ StartsWith(Drop(t, n), <<".", " ">>) THEN n + 2 ELSE 0

Block(tag, content) == [tag |-> tag, content |-> content]

\* `if in_list: html_lines.append('</ul>'); in_list = False`
CloseList(html, in_list) == IF in_list THEN Append(html, Block("/ul", <<>>)) ELSE html

\* `if not in_list: html_lines.append('<ul>'); in_list = True`
OpenList(html, in_list) == IF in_list THEN html ELSE Append(html, Block("ul", <<>>))

\* The state of the loop: (html_lines, in_list, in_code_block, code_content).
MdState(html, in_list, in_code, code) ==
    [html_lines |-> html, in_list |-> in_list, in_code_block |-> in_code,
     code_content |-> code]

\* The fence branch (lines 304..311).
FenceStep(s) ==
    IF s.in_code_block
    THEN MdState(Append(s.html_lines, Block("pre", Join(s.code_content))),
                 s.in_list, FALSE, <<>>)
    ELSE MdState(s.html_lines, s.in_list, TRUE, s.code_content)

\* One iteration of `for line in lines` (lines 302..371): the branches in
\* the order of the code.
LineStep(s, line) ==
    IF IsFence(line) THEN FenceStep(s)
    ELSE IF s.in_code_block
    THEN MdState(s.html_lines, s.in_list, TRUE, Append(s.code_content, line))
    ELSE IF APIHeading(line).tag # "other"
    THEN MdState(Append(CloseList(s.html_lines, s.in_list),
                        Block(APIHeading(line).tag, APIHeading(line).content)),
                 FALSE, FALSE, s.code_content)
    ELSE IF IsBullet(line)
    THEN MdState(Append(OpenList(s.html_lines, s.in_list),
                        Block("li", apply_inline_formatting(Drop(Strip(line), 2)))),
                 TRUE, FALSE, s.code_content)
    ELSE IF NumberPrefix(Strip(line)) > 0
    THEN MdState(Append(OpenList(s.html_lines, s.in_list),
                        Block("li", apply_inline_formatting(
                                        Drop(Strip(line), NumberPrefix(Strip(line)))))),
                 TRUE, FALSE, s.code_content)
    ELSE IF Strip(line) = <<>>
    THEN MdState(CloseList(s.html_lines, s.in_list), FALSE, FALSE, s.code_content)
    ELSE MdState(Append(CloseList(s.html_lines, s.in_list),
                        Block("p", apply_inline_formatting(line))),
                 FALSE, FALSE, s.code_content)

\* The loop takes the next line.
MdLine ==
    /\ pc = "markdown" /\ ~fx.done
    /\ fx.i <= Len(fx.lines)
    /\ fx' = [fx EXCEPT !.i = @ + 1, !.s = LineStep(fx.s, fx.lines[fx.i])]
    /\ FXFrame

\* Behind the loop (lines 373..377): `if in_list: html_lines.append('</ul>')`
\* and the return of the joined lines.
MdReturn ==
    /\ pc = "markdown" /\ ~fx.done
    /\ fx.i > Len(fx.lines)
    /\ fx' = [fx EXCEPT !.done = TRUE,
                        !.s = [fx.s EXCEPT !.html_lines = CloseList(@, fx.s.in_list)]]
    /\ FXFrame

\* markdown_text.split('\n'): a text of n lines, n >= 1.
InitMarkdown ==
    /\ FXStart("markdown")
    /\ \E ls \in StringsUpTo(MdLines, MaxMdLines) :
         /\ ls # <<>>
         /\ fx = [fn |-> "markdown_to_html", lines |-> ls, i |-> 1, done |-> FALSE,
                  s |-> MdState(<<>>, FALSE, FALSE, <<>>)]

NextMarkdown == MdLine \/ MdReturn

SpecMarkdown == InitMarkdown /\ [][NextMarkdown]_vars

(***************************************************************************)
(* The specification.                                                      *)
(***************************************************************************)
Init ==
    /\ variant \in {"api", "ui"}
    /\ image \in {"none", "missing", "present"}
    /\ headless \in BOOLEAN
    /\ pc = "start"
    /\ driver = "none"
    /\ cookies = FALSE
    /\ rl_fn = ""
    /\ rl_pc = "idle"
    /\ attempt = 0
    /\ sleeps = <<>>
    /\ outcomes = <<>>
    /\ last_error = NoError
    /\ rl_error = NoError
    /\ rl_value = ""
    /\ cr_i = 1
    /\ cr_last = <<>>
    /\ requests = <<>>
    /\ answers = <<>>
    /\ platform = <<>>
    /\ article_id = 0
    /\ image_key = FALSE
    /\ result = "running"
    /\ surfaced = NoError
    /\ ui = UIInit
    /\ login = LoginInit
    /\ rs = RSIdle
    /\ fx = FXIdle

Next ==
    \/ APIOpenBrowser
    \/ APILogin
    \/ CallCreate
    \/ CreateSend
    \/ CallNext
    \/ UploadInvoke
    \/ UpdateInvoke
    \/ APIFinish
    \/ UIOpenBrowser
    \/ UILogin
    \/ UICompose
    \/ UITitle
    \/ UIBody
    \/ UIMedia
    \/ UIStep6
    \/ UIStep7
    \/ UIStep8
    \/ UIStep9
    \/ UIStep10
    \/ UIReturn
    \/ UIFinally

Spec == Init /\ [][Next]_vars

\* The resolution loops on their own: every list kind over every page.
InitResolve ==
    /\ variant = "ui"
    /\ image = "none"
    /\ headless = TRUE
    /\ pc = "resolve"
    /\ driver = "open"
    /\ cookies = FALSE
    /\ rl_fn = ""
    /\ rl_pc = "idle"
    /\ attempt = 0
    /\ sleeps = <<>>
    /\ outcomes = <<>>
    /\ last_error = NoError
    /\ rl_error = NoError
    /\ rl_value = ""
    /\ cr_i = 1
    /\ cr_last = <<>>
    /\ requests = <<>>
    /\ answers = <<>>
    /\ platform = <<>>
    /\ article_id = 0
    /\ image_key = FALSE
    /\ result = "running"
    /\ surfaced = NoError
    /\ ui = UIInit
    /\ login = LoginInit
    /\ \E k \in ListKinds, p \in Pages :
         rs = [RSIdle EXCEPT !.kind = k, !.page = p, !.i = 1]
    /\ fx = FXIdle

NextResolve ==
    \/ ResolveLoginField
    \/ ResolveDisplayed
    \/ ResolveBody

SpecResolve == InitResolve /\ [][NextResolve]_vars

(***************************************************************************)
(* Properties.                                                             *)
(***************************************************************************)
\* A transient failure as the claims define it: an HTTPError with status
\* 429, or a transport-level RequestException.
IsTransient(e) ==
    \/ e.cls = "HTTPError" /\ e.status = 429
    \/ e.cls = "RequestException"

\* Any other failure of the wrapped work.
IsNonRetryable(e) == e # NoError /\ ~IsTransient(e)

\* The wrapper has been entered by this run.
InWrapper == rl_pc # "idle"

Range(s) == {s[i] : i \in 1..Len(s)}

\* The time slept by a sequence of sleeps.
RECURSIVE SumDur(_)
SumDur(s) == IF s = <<>> THEN 0 ELSE Head(s).dur + SumDur(Tail(s))

\* baseDelay * (sum of backoffMultiplier^i for i in [0, n))
RECURSIVE BackoffSum(_)
BackoffSum(n) ==
    IF n = 0 THEN 0
    ELSE REQUEST_INTERVAL * Pow(RETRY_BACKOFF, n - 1) + BackoffSum(n - 1)

PublishClicks == {"publish_panel", "final_publish"}

\* The run published nothing: no final publish control was clicked and no
\* request set status published.
NothingPublished ==
    /\ "final_publish" \notin Range(ui.clicks)
    /\ ui.status # "published"
    /\ \A i \in 1..Len(requests) : requests[i].status # "published"
    /\ \A id \in 1..Len(platform) : platform[id] # "published"

(* C1: in the UI-driven variant a publish control (the publish-panel       *)
(* button or a final publish control) is clicked only when the caller      *)
(* requested publication; a run without a publish request clicks none and  *)
(* never leaves the article published.                                     *)
C1_PublishOnlyOnRequest ==
    (variant = "ui" /\ ~publishRequested) =>
        /\ Range(ui.clicks) \cap PublishClicks = {}
        /\ ui.status # "published"

(* C2: in the API-driven variant every create request and every update     *)
(* request carries status draft, no request sets status published, and     *)
(* every article record of the platform has status draft.                  *)
C2_AlwaysDraft ==
    variant = "api" =>
        /\ \A i \in 1..Len(requests) :
             /\ requests[i].op \in {"create", "update"} =>
                    requests[i].status = "draft"
             /\ requests[i].status # "published"
        /\ \A id \in 1..Len(platform) : platform[id] = "draft"

\* C2's case: a run that created a record and got its update accepted.
C2_Witness ==
    /\ variant = "api" /\ result = "True"
    /\ \E i \in 1..Len(requests) : requests[i].op = "create"
    /\ \E i \in 1..Len(requests) : requests[i].op = "update"
    /\ Len(platform) >= 1

(* C3: whenever a run of either variant ends with a failure result         *)
(* (safe_post_to_note returns False, post_to_note_selenium returns None),  *)
(* no publish action was performed during that run: the article is not     *)
(* left published.                                                         *)
C3_FailureNeverPublished ==
    (pc = "done" /\ result \in {"False", "None"}) => NothingPublished

(* C4: a transient failure in iteration `attempt` makes the wrapper sleep  *)
(* REQUEST_INTERVAL * RETRY_BACKOFF^attempt and invoke the work again, for *)
(* at most MAX_RETRIES invocations in total; when all attempts fail the    *)
(* wrapper raises the failure of the last attempt.                         *)
C4_TransientRetry ==
    /\ Len(outcomes) <= MAX_RETRIES
    /\ \A k \in 1..Len(outcomes) :
         IsTransient(outcomes[k]) =>
            /\ Len(sleeps) >= k + 1
            /\ sleeps[k + 1].dur = REQUEST_INTERVAL * Pow(RETRY_BACKOFF, k - 1)
            /\ k < MAX_RETRIES => (Len(outcomes) > k \/ rl_pc = "invoke")
            /\ k = MAX_RETRIES =>
                   /\ rl_pc = "raised"
                   /\ rl_error = outcomes[k]
                   /\ pc = "done" /\ surfaced = outcomes[k]

\* C4's case: three transient failures, not all alike, so that the last is
\* told from the first.
C4_Witness ==
    /\ rl_pc = "raised"
    /\ Len(outcomes) = MAX_RETRIES
    /\ \A k \in 1..Len(outcomes) : IsTransient(outcomes[k])
    /\ outcomes[1] # outcomes[MAX_RETRIES]

(* C5: a non-retryable failure (an HTTPError whose status is not 429, or   *)
(* an exception that is no RequestException) propagates from the attempt   *)
(* it occurs in: the work is not invoked again and nothing is slept after  *)
(* it; on the first attempt the work ran exactly once and the only sleep   *)
(* is the pacing delay.                                                    *)
C5_NonRetryablePropagates ==
    \A k \in 1..Len(outcomes) :
        IsNonRetryable(outcomes[k]) =>
            /\ Len(outcomes) = k
            /\ rl_pc = "raised"
            /\ rl_error = outcomes[k]
            /\ Len(sleeps) = k
            /\ k = 1 => sleeps = <<Sleep("pacing", REQUEST_INTERVAL)>>

\* C5's case: the first invocation is answered with a client error.
C5_Witness ==
    /\ rl_pc = "raised"
    /\ Len(outcomes) = 1
    /\ outcomes[1].cls = "HTTPError" /\ outcomes[1].status = 400

(* C6, as stated: after N transient failures followed by a success the     *)
(* wrapper returns the value after N retries, and the durations it slept   *)
(* in the call are strictly increasing.                                    *)
C6_StrictlyIncreasingSleeps ==
    (rl_pc = "returned") =>
        /\ rl_value = "value"
        /\ \A k \in 1..(Len(outcomes) - 1) : IsTransient(outcomes[k])
        /\ \A i \in 1..(Len(sleeps) - 1) : sleeps[i].dur < sleeps[i + 1].dur

(* C6, amended: after N transient failures followed by a success           *)
(* (0 <= N < MAX_RETRIES) the wrapper returns the value after exactly N    *)
(* retries (N + 1 invocations); the N backoff sleeps are strictly          *)
(* increasing, and the sleeps of the whole call, the pacing delay first,   *)
(* are non-decreasing (the first backoff equals the pacing delay).         *)
C6_ReturnsAfterNRetries ==
    (rl_pc = "returned") =>
        /\ rl_value = "value"
        /\ Len(outcomes) \in 1..MAX_RETRIES
        /\ outcomes[Len(outcomes)] = NoError
        /\ \A k \in 1..(Len(outcomes) - 1) : IsTransient(outcomes[k])
        /\ Len(sleeps) = Len(outcomes)
        /\ \A i \in 2..(Len(sleeps) - 1) : sleeps[i].dur < sleeps[i + 1].dur
        /\ \A i \in 1..(Len(sleeps) - 1) : sleeps[i].dur <= sleeps[i + 1].dur

\* C6's case: two transient failures, then a success.
C6_Witness ==
    /\ rl_pc = "returned"
    /\ Len(outcomes) = MAX_RETRIES
    /\ IsTransient(outcomes[1]) /\ IsTransient(outcomes[2])

(* C7, as stated: the sleep that precedes every invocation of the work,    *)
(* the first and each retry, is the fixed pacing interval.                 *)
C7_PacingBeforeEveryInvocation ==
    \A j \in 1..Len(outcomes) :
        /\ Len(sleeps) >= j
        /\ sleeps[j].dur = REQUEST_INTERVAL

(* C7, amended: the fixed pacing interval is slept once per call, before   *)
(* the first invocation; the sleep that precedes the retry in iteration    *)
(* `attempt` is the backoff REQUEST_INTERVAL * RETRY_BACKOFF^(attempt-1),  *)
(* which is never shorter than REQUEST_INTERVAL.                           *)
C7_PacingOncePerCall ==
    InWrapper =>
        /\ Len(sleeps) >= 1
        /\ sleeps[1] = Sleep("pacing", REQUEST_INTERVAL)
        /\ \A j \in 2..Len(sleeps) :
             /\ sleeps[j].kind = "backoff"
             /\ sleeps[j].dur = REQUEST_INTERVAL * Pow(RETRY_BACKOFF, j - 2)
             /\ sleeps[j].dur >= REQUEST_INTERVAL
        /\ \A j \in 1..Len(outcomes) : Len(sleeps) >= j

\* C7's case: the work was invoked a third time.
C7_Witness ==
    /\ Len(outcomes) = MAX_RETRIES
    /\ sleeps[MAX_RETRIES].dur > REQUEST_INTERVAL

(* C8, as stated: the sleeps of one call sum to at most                    *)
(* REQUEST_INTERVAL * (RETRY_BACKOFF^0 + ... + RETRY_BACKOFF^(MAX_RETRIES  *)
(* - 1)), 14 seconds.                                                      *)
C8_TotalWaitAtMostBackoffSum ==
    SumDur(sleeps) <= BackoffSum(MAX_RETRIES)

(* C8, amended: the sleeps of one call sum to at most the pacing delay     *)
(* plus the backoffs, REQUEST_INTERVAL * (1 + RETRY_BACKOFF^0 + ... +      *)
(* RETRY_BACKOFF^(MAX_RETRIES - 1)), 16 seconds.                           *)
C8_TotalWaitAtMostPacingPlusBackoffSum ==
    SumDur(sleeps) <= REQUEST_INTERVAL + BackoffSum(MAX_RETRIES)

\* C8's case: a call whose attempts all failed transiently reaches the bound.
C8_Witness ==
    /\ rl_pc = "raised"
    /\ Len(outcomes) = MAX_RETRIES
    /\ SumDur(sleeps) = REQUEST_INTERVAL + BackoffSum(MAX_RETRIES)

\* The creation requests sent so far.
CreateRequests == SelectSeq(requests, LAMBDA r : r.op = "create")

(* C9: create_article sends its shapes in the order note, flat, text_note; *)
(* it accepts the first shape answered with 200/201 and sends no later     *)
(* shape; the run goes on with the identifier of the accepted answer.      *)
C9_FirstSuccessAccepted ==
    /\ \A i \in 1..Len(CreateRequests) :
         CreateRequests[i].shape = payloads_to_try[i].shape
    /\ \A i \in 1..Len(answers) :
         answers[i].http \in SuccessCodes =>
            /\ Len(answers) = i
            /\ article_id = answers[i].id
            /\ ~(rl_fn = "create_article" /\ rl_pc = "raised")

\* create_article raised: no payload was accepted.
CreateExhausted ==
    /\ variant = "api" /\ pc = "done"
    /\ rl_fn = "create_article" /\ rl_pc = "raised"

UploadFailed ==
    /\ variant = "api" /\ rl_fn = "upload_image" /\ rl_pc = "raised"

UpdateRequests == SelectSeq(requests, LAMBDA r : r.op = "update")

(* C11, as stated: in the API-driven variant a failed media attachment     *)
(* does not abort the run: update_article_draft is still called, without   *)
(* a media reference, and the run ends in success.                         *)
C11_AttachFailureContinues ==
    (UploadFailed /\ pc = "done") =>
        /\ result = "True"
        /\ UpdateRequests # <<>>

(* C11, as amended: a failed media attachment aborts the run: the error    *)
(* upload_image raised is what safe_post_to_note catches, the result is    *)
(* False, no update request is ever sent, and the record created before    *)
(* the upload is left as it was created.                                   *)
C11_AttachFailureAborts ==
    UploadFailed =>
        /\ pc = "done"
        /\ result = "False"
        /\ surfaced = rl_error
        /\ UpdateRequests = <<>>
        /\ article_id # 0
        /\ ~image_key

C11_Witness ==
    /\ UploadFailed
    /\ image = "present"
    /\ Len(outcomes) = MAX_RETRIES
    /\ result = "False"

\* The steps of post_to_note_selenium that follow Step 5.
AfterMedia ==
    {"ui_step6", "ui_step7", "ui_step8", "ui_step9", "ui_step10",
     "ui_return", "ui_finally", "done"}

(* C12: in the UI-driven variant a media file that cannot be attached      *)
(* (control or file input not located, upload raising) is skipped: the run *)
(* goes on with Step 6, the media step never ends the run, and a run that  *)
(* no other step ended returns its URL.                                    *)
C12_MediaFailureNonFatal ==
    variant = "ui" =>
        /\ ui.failed_at # "ui_media"
        /\ (ui.media = "failed" => pc \in AfterMedia /\ ~ui.uploaded)
        /\ (ui.media = "failed" /\ ui.failed_at = "" /\ pc \in {"ui_finally", "done"}
              => ui.ret = "url")

C12_Witness ==
    /\ variant = "ui" /\ image = "present"
    /\ ui.media = "failed"
    /\ pc = "done" /\ result = "url"

\* The login button was clicked and the code looked at the resulting page.
LoginChecked == login.outcome \in {"Authenticated", "LoginFailed"}

(* C13, as stated: after the click on the login button the outcome is      *)
(* LoginFailed whenever the location still indicates the login page or an  *)
(* error indicator is present, and Authenticated only when neither holds.  *)
C13_FailedOnLoginPageOrErrorIndicator ==
    LoginChecked =>
        (login.outcome = "LoginFailed" <=> (login.at_login \/ login.error_shown))

(* C13, as amended: after the click on the login button the outcome is     *)
(* LoginFailed exactly when the location still indicates the login page;   *)
(* an error indicator on a page whose location has left the login page     *)
(* does not make the login fail (get_note_cookies looks for the indicator  *)
(* only to word its log line, post_to_note_selenium not at all).           *)
C13_FailedIffLoginPage ==
    LoginChecked =>
        /\ login.submits = 1
        /\ (login.outcome = "LoginFailed" <=> login.at_login)
        /\ (login.outcome = "Authenticated" <=> ~login.at_login)
        /\ (variant = "api" /\ login.outcome = "LoginFailed"
              => surfaced = LoginError("login_failed") /\ result = "False")
        /\ (variant = "api" /\ login.outcome = "Authenticated" => cookies)

C13_Witness ==
    /\ login.submits = 1
    /\ ~login.at_login /\ login.error_shown
    /\ login.outcome = "Authenticated"

\* Nothing was composed, created, uploaded, persisted or published.
NothingDone ==
    /\ requests = <<>> /\ platform = <<>> /\ article_id = 0
    /\ ~cookies /\ ~image_key
    /\ ~ui.text_note_clicked /\ ui.title = "none" /\ ui.body = "none"
    /\ ui.media = "" /\ ~ui.uploaded /\ ui.clicks = <<>> /\ ui.status = "none"

(* C14: authentication failure is terminal.  The login form is submitted   *)
(* at most once in a run of either variant; once the page after the click  *)
(* is still the login page (the LoginFailed outcome) the run does nothing  *)
(* more than clean up: no compose, create, upload, persist or publish      *)
(* action, and it ends in failure, never in True or a URL.                 *)
C14_AuthFailureTerminal ==
    /\ login.submits <= 1
    /\ (login.outcome = "LoginFailed" \/ (login.submits = 1 /\ login.at_login)) =>
          /\ pc \in {"ui_finally", "done"}
          /\ NothingDone
          /\ result \in {"running", "False", "None", "raised"}
          /\ (variant = "api" => pc = "done" /\ result = "False")
          /\ (variant = "ui" => ui.ret = "None" /\ ui.failed_at = "ui_login")

C14_Witness ==
    /\ login.outcome = "LoginFailed"
    /\ login.submits = 1
    /\ pc = "done"
    /\ result \in {"False", "None"}

(* C15: a browser that was started is released (driver.quit()) on every    *)
(* exit path of get_note_cookies and of post_to_note_selenium, a fault     *)
(* raised while waiting for the operator in the cleanup block included.    *)
C15_BrowserReleased ==
    /\ (pc = "done" => driver # "open")
    /\ (variant = "api" /\ pc \notin {"start", "login"} => driver # "open")

(* C16: no fault escapes the run boundary: safe_post_to_note returns False *)
(* and post_to_note_selenium returns None instead of raising.              *)
C16_NoFaultEscapes ==
    /\ result # "raised"
    /\ (pc = "done" /\ variant = "api" => result \in {"True", "False"})
    /\ (pc = "done" /\ variant = "ui" => result \in {"url", "None"})

\* Why a run failed, in the words of the failure taxonomy.
AuthFailed == login.outcome = "LoginFailed"
PersistFailed ==
    /\ variant = "api" /\ rl_fn = "update_article_draft" /\ rl_pc = "raised"

\* What safe_post_to_note returns after an authentication failure.
AuthFailureResult == "False"

(* C17, as stated: on failure the result is a typed outcome that tells     *)
(* authentication failure, content-creation failure, persistence failure   *)
(* and manual-intervention-needed apart: runs failing for different        *)
(* reasons end in pairwise different result values.  Hence a run of the    *)
(* API-driven variant whose creation or persistence failed does not end in *)
(* the value an authentication failure ends in.                            *)
C17_TypedFailureOutcome ==
    /\ (variant = "api" /\ pc = "done" /\ AuthFailed => result = AuthFailureResult)
    /\ (pc = "done" /\ (CreateExhausted \/ PersistFailed)
          => result # AuthFailureResult)

(* C17, as amended: the result does not tell the reasons apart.            *)
(* safe_post_to_note returns False for an authentication failure, a        *)
(* content-creation failure and a persistence failure alike;               *)
(* post_to_note_selenium's return statement yields None for an             *)
(* authentication failure and for every fault it catches, and a run that   *)
(* asks for manual completion goes on to return the URL like a run that    *)
(* published.  The reasons differ only in what is logged.                  *)
C17_FailureUntyped ==
    /\ (variant = "api" /\ pc = "done" /\ (AuthFailed \/ CreateExhausted \/ PersistFailed)
          => result = "False")
    /\ (variant = "api" /\ pc = "done" => result \in {"True", "False"})
    /\ (variant = "ui" /\ (AuthFailed \/ ui.failed_at # "") => ui.ret = "None")
    /\ (variant = "ui" /\ ui.manual /\ ui.failed_at = "" /\ pc \in {"ui_finally", "done"}
          => ui.ret = "url")

C17_Witness ==
    /\ PersistFailed
    /\ pc = "done"
    /\ result = "False"
    /\ surfaced.cls = "HTTPError"

(* C18: in the UI-driven variant the title field and the body field are    *)
(* required: when either is not located the run ends at that step, no      *)
(* later step is executed and the result is a failure; a run that returns  *)
(* a URL has written both fields.                                          *)
C18_RequiredFieldsFatal ==
    variant = "ui" =>
        /\ (ui.ret = "url" => ui.title = "written" /\ ui.body = "written")
        /\ (pc \in AfterMedia \cup {"ui_media"} /\ ui.body # "written"
              => pc \in {"ui_finally", "done"} /\ ui.clicks = <<>>)

\* The words of the claim: an element that is present and interactable
\* (displayed / clickable).
Interactable(e) == e \in {"top", "ok"}

\* The candidates whose selector matches an interactable element.
HasInteractable ==
    {c \in 1..Len(Candidates) :
        \E j \in 1..Len(rs.page[c]) : Interactable(rs.page[c][j])}

Min(S) == CHOOSE x \in S : \A y \in S : x <= y

(* C19, as stated: resolution over an ordered list returns the element of  *)
(* the first candidate, in list order, that has a present and interactable *)
(* element, and tries no later candidate after a success; when no          *)
(* candidate has one, nothing is returned.                                 *)
C19_FirstCandidateWithInteractable ==
    (pc = "resolve" /\ rs.done) =>
        IF HasInteractable # {}
        THEN /\ rs.cand = Min(HasInteractable)
             /\ rs.elem \in 1..Len(rs.page[rs.cand])
             /\ Interactable(rs.page[rs.cand][rs.elem])
             /\ rs.tried = [c \in 1..rs.cand |-> c]
        ELSE rs.cand = 0

\* What each kind of list accepts, and which of a candidate's elements it
\* gets to look at.
Acceptable(kind, e) == IF kind = "body" THEN e = "ok" ELSE Interactable(e)
Considered(kind, els, j) ==
    IF kind = "login_field" THEN j = 1
    ELSE \A m \in 1..(j - 1) : els[m] # "faulty"
Takes(kind, els) ==
    {j \in 1..Len(els) : Acceptable(kind, els[j]) /\ Considered(kind, els, j)}
Taking == {c \in 1..Len(Candidates) : Takes(rs.kind, rs.page[c]) # {}}

(* C19, as amended: resolution walks the list in order, stops at the first *)
(* candidate from which it takes an element and tries no later one.  What  *)
(* it takes depends on the list: the login-field loops of get_note_cookies *)
(* look only at the first element each selector matches, which must be     *)
(* displayed and enabled; the title and publish-control loops take the     *)
(* first displayed element of a candidate unless a call on an earlier      *)
(* element of that candidate raised; the body loop does the same but       *)
(* passes over displayed elements at y <= 100.  When it takes nothing from *)
(* any candidate it has tried all of them and returns nothing.             *)
C19_FirstCandidateTaken ==
    pc = "resolve" =>
        /\ rs.tried = [c \in 1..Len(rs.tried) |-> c]
        /\ (~rs.done => rs.cand = 0 /\ rs.i = Len(rs.tried) + 1)
        /\ (rs.done =>
              IF Taking # {}
              THEN /\ rs.cand = Min(Taking)
                   /\ rs.elem = Min(Takes(rs.kind, rs.page[rs.cand]))
                   /\ Len(rs.tried) = rs.cand
              ELSE /\ rs.cand = 0 /\ rs.elem = 0
                   /\ Len(rs.tried) = Len(Candidates))

C19_Witness ==
    /\ pc = "resolve" /\ rs.done
    /\ Taking = {3}
    /\ rs.cand = 3 /\ rs.elem = 1
    /\ rs.tried = <<1, 2, 3>>

(* C20, as stated: when every candidate of a login lookup is exhausted the *)
(* lookup yields a not-found outcome as a value and lets no exception      *)
(* escape it, in get_note_cookies and in post_to_note_selenium's login     *)
(* step.                                                                   *)
C20_NotFoundIsAValue ==
    login.missing # "" =>
        /\ login.lookup = "None"
        /\ login.lookup # "TimeoutException"

(* C20, as amended: in get_note_cookies an exhausted lookup leaves its     *)
(* variable None, no exception escapes the loop, and the function then     *)
(* raises a plain Exception naming the field, which ends the run in False; *)
(* in post_to_note_selenium's login step a lookup that finds nothing       *)
(* raises TimeoutException out of the lookup, and the function's except    *)
(* clause turns it into the return value None.  Neither submits the form.  *)
C20_ExhaustedLookup ==
    login.missing # "" =>
        /\ login.submits = 0
        /\ login.outcome = "Fault"
        /\ NothingDone
        /\ (variant = "api" =>
              /\ login.lookup = "None"
              /\ pc = "done" /\ result = "False"
              /\ surfaced.cls = "Exception"
              /\ surfaced.msg = login.missing \o "_not_found")
        /\ (variant = "ui" =>
              /\ login.lookup = "TimeoutException"
              /\ ui.ret = "None" /\ ui.failed_at = "ui_login"
              /\ pc \in {"ui_finally", "done"})

C20_Witness ==
    /\ variant = "ui"
    /\ login.missing = "password"
    /\ login.lookup = "TimeoutException"
    /\ result = "None"

(* C21: in post_to_note_selenium, when the publish panel was opened and no *)
(* final publish control is found among the XPath and the CSS candidates,  *)
(* the step does not end the run: no final publish control is clicked,     *)
(* manual completion is asked for, the run goes on to its return statement *)
(* and, unless a later step ends it, returns the current URL.              *)
C21_ManualCompletionReturnsURL ==
    /\ (variant = "ui" => ui.failed_at # "ui_step10")
    /\ (variant = "ui" /\ ui.publish_clicked /\ pc = "ui_return"
          /\ "final_publish" \notin Range(ui.clicks) => ui.manual)
    /\ (variant = "ui" /\ ui.manual) =>
        /\ ui.publish_clicked
        /\ ~ui.published
        /\ "final_publish" \notin Range(ui.clicks)
        /\ ui.status # "published"
        /\ ui.failed_at # "ui_step10"
        /\ pc \in {"ui_return", "ui_finally", "done"}
        /\ (ui.failed_at = "" /\ pc \in {"ui_finally", "done"} => ui.ret = "url")

C21_Witness ==
    /\ variant = "ui" /\ ui.manual
    /\ pc = "done" /\ result = "url"

(* C25: a creation request of create_article answered with 429 makes the   *)
(* wrapper around create_article wait with exponential backoff and retry   *)
(* the creation call, up to MAX_RETRIES invocations, before the run fails. *)
C25_CreateRetriedOn429 ==
    (variant = "api" /\ rl_fn = "create_article") =>
        \A i \in 1..Len(answers) :
            answers[i].http = 429 =>
                /\ (Len(CreateRequests) > i => Len(sleeps) >= 2)
                /\ (CreateExhausted => Len(outcomes) = MAX_RETRIES)

\* The place of an operation in post_to_note.
StepRank(op) ==
    CASE op = "create" -> 1 [] op = "upload" -> 2 [] op = "update" -> 3

RequestsOf(op) == SelectSeq(requests, LAMBDA r : r.op = op)

(* C26: in post_to_note the steps run in the order login, create_article,  *)
(* upload_image (only with an image path), update_article_draft.  A step   *)
(* starts only after the one before it has returned, the wrapper runs the  *)
(* function of the current step only, and a step that fails ends the run   *)
(* with no request of a later step.                                        *)
C26_StepsInOrder ==
    variant = "api" =>
        /\ \A i, j \in 1..Len(requests) :
              i < j => StepRank(requests[i].op) <= StepRank(requests[j].op)
        /\ (requests # <<>> \/ pc \in {"create", "upload", "update"}
              => cookies /\ login.outcome = "Authenticated" /\ driver = "quit")
        /\ (pc = "create" => rl_fn \in {"", "create_article"})
        /\ (pc = "upload" => rl_fn = "upload_image" /\ image # "none" /\ article_id # 0)
        /\ (pc = "update" =>
              /\ rl_fn = "update_article_draft" /\ article_id # 0
              /\ (image = "none" \/ image_key))
        /\ (RequestsOf("upload") # <<>> => image = "present" /\ article_id # 0)
        /\ (RequestsOf("update") # <<>> => article_id # 0 /\ (image = "none" \/ image_key))
        /\ (result = "False" => pc = "done")
        /\ (login.outcome \in {"LoginFailed", "Fault"} => requests = <<>>)
        /\ (CreateExhausted => RequestsOf("upload") = <<>> /\ RequestsOf("update") = <<>>)
        /\ (UploadFailed => RequestsOf("update") = <<>>)
        /\ (result = "True" => requests[Len(requests)].op = "update")

C26_Witness ==
    /\ variant = "api" /\ image = "present"
    /\ result = "True"
    /\ RequestsOf("create") # <<>>
    /\ RequestsOf("upload") # <<>>
    /\ RequestsOf("update") # <<>>

(* C27: in the publish path of post_to_note_selenium the paid-tier,        *)
(* paid-area, confirm and final-publish steps run only if the publish      *)
(* panel button was clicked; the price is entered only after a paid-tier   *)
(* control was clicked; the confirm lookup runs only after the paid-area   *)
(* setting button was clicked; and the final publish lookup runs whenever  *)
(* the panel was opened, whatever the steps in between found.              *)
C27_PublishPathGating ==
    variant = "ui" =>
        /\ (pc \in {"ui_step7", "ui_step8", "ui_step9", "ui_step10"}
              => ui.publish_clicked)
        /\ (ui.paid_selected \/ ui.price_set \/ ui.area_setting_clicked
              \/ ui.confirmed \/ ui.published \/ ui.manual => ui.publish_clicked)
        /\ (ui.price_set => ui.paid_selected)
        /\ (pc = "ui_step9" \/ ui.confirmed => ui.area_setting_clicked)
        /\ (ui.publish_clicked /\ pc \in {"ui_return", "ui_finally", "done"}
              => ui.published \/ ui.manual)

C27_Witness ==
    /\ variant = "ui" /\ ui.publish_clicked
    /\ ~ui.paid_selected /\ ~ui.price_set
    /\ ~ui.area_setting_clicked /\ ~ui.confirmed
    /\ ui.published

\* The creation requests the platform answered with success.
CreateSuccesses == {i \in 1..Len(answers) : answers[i].http \in SuccessCodes}

(* C30: in one run of post_to_note at most one creation request is         *)
(* answered with success: after a creation attempt answered 200/201,       *)
(* create_article sends no further payload, whatever the response holds,   *)
(* and the run creates at most one draft record.                           *)
C30_AtMostOneCreation ==
    /\ Cardinality(CreateSuccesses) <= 1
    /\ Len(platform) <= 1
    /\ \A i \in CreateSuccesses : Len(CreateRequests) = i

\* out shows of text only its first two and its last two characters, and
\* nothing of a text of four characters or fewer.
Masked(text, out) ==
    IF Len(text) <= 4
    THEN out = <<"*", "*", "*">>
    ELSE /\ Len(out) = 7
         /\ out[1] = text[1] /\ out[2] = text[2]
         /\ out[3] = "*" /\ out[4] = "*" /\ out[5] = "*"
         /\ out[6] = text[Len(text) - 1] /\ out[7] = text[Len(text)]

(* C22: credentials are never logged in plaintext.  Every log call that    *)
(* takes a credential takes the email, never the password, and logs it     *)
(* through mask_sensitive, which yields "***" for an empty input or one of *)
(* length <= 4 and otherwise the first 2 characters, "***" and the last 2  *)
(* characters.                                                             *)
C22_CredentialsMasked ==
    pc = "mask" =>
        \A i \in 1..Len(fx.log) :
            /\ fx.log[i].arg = "email"
            /\ fx.log[i].text # fx.password
            /\ Masked(fx.email, fx.log[i].text)

C22_Witness ==
    /\ pc = "mask"
    /\ Len(fx.email) = 5
    /\ Len(fx.log) = 2
    /\ fx.log[1].text = <<fx.email[1], fx.email[2], "*", "*", "*", fx.email[4], fx.email[5]>>
    /\ fx.log[2].text = fx.log[1].text

\* The markup level of a converted line: the tag of the API implementation,
\* the marker that opens the line in the UI implementation.
Level(o) ==
    IF o.tag # "text" THEN o.tag
    ELSE IF o.content # <<>> /\ o.content[1] \in {"DIAMOND", "SQUARE", "TRIANGLE"}
    THEN o.content[1]
    ELSE "none"

(* C23, as stated: both markdown_to_html implementations map the heading   *)
(* prefixes '# ', '## ' and '### ' to three pairwise distinct markup       *)
(* levels.                                                                 *)
C23_ThreeDistinctLevels ==
    (pc = "headings" /\ fx.impl # "") =>
        /\ Level(fx.out[1]) # Level(fx.out[2])
        /\ Level(fx.out[2]) # Level(fx.out[3])
        /\ Level(fx.out[1]) # Level(fx.out[3])
        /\ \A k \in 1..3 : Level(fx.out[k]) \notin {"other", "none"}

(* C23, as amended: the API implementation maps '# ' and '## ' to the same *)
(* level, <h2>, and '### ' to <h3>, whatever follows the prefix; the UI    *)
(* implementation maps the three prefixes to three pairwise distinct       *)
(* markers when at least one character follows the prefix, and leaves a    *)
(* prefix with nothing behind it unconverted.                              *)
C23_TwoLevelsAPIThreeUI ==
    pc = "headings" =>
        /\ (fx.impl = "api" =>
              /\ Level(fx.out[1]) = "h2"
              /\ Level(fx.out[2]) = "h2"
              /\ Level(fx.out[3]) = "h3")
        /\ (fx.impl = "ui" /\ fx.text # <<>> =>
              /\ Level(fx.out[1]) = "DIAMOND"
              /\ Level(fx.out[2]) = "SQUARE"
              /\ Level(fx.out[3]) = "TRIANGLE")
        /\ (fx.impl = "ui" /\ fx.text = <<>> =>
              \A k \in 1..3 : Level(fx.out[k]) = "none")

C23_Witness ==
    /\ pc = "headings" /\ fx.impl = "api"
    /\ fx.text = <<"x">>
    /\ fx.out[1] = [tag |-> "h2", content |-> <<"x">>]
    /\ fx.out[2] = [tag |-> "h2", content |-> <<"x">>]
    /\ fx.out[3].tag = "h3"

(* C24: in the UI variant's markdown_to_html every bare URL of the input   *)
(* ends up inside exactly one link, and a link generated from [text](url)  *)
(* is never wrapped a second time, also when a bare URL stands next to     *)
(* linked text or equals the target or the text of a link.                 *)
C24_LinkedExactlyOnce ==
    (pc = "links" /\ fx.stage = 4) =>
        \A i \in 1..Len(fx.nodes) :
            \A j \in 1..Len(fx.nodes[i].run) :
                /\ (fx.nodes[i].run[j].k = "url" => fx.nodes[i].wrap)
                /\ (fx.nodes[i].run[j].k = "link" => ~fx.nodes[i].wrap)
                /\ fx.nodes[i].run[j].k \notin {"md", "marker"}

\* The contenteditable elements of the layout, in document order.
Editables ==
    {i \in 1..Len(fx.layout) : fx.layout[i].type \in ContentEditable}

\* The selectors of the body list that yield an element: one that is
\* displayed at y > 100 and that the loop gets to look at.
BodyYielding ==
    {i \in 1..Len(body_selectors) :
        Takes("body", VisOf(Matching(body_selectors[i], fx.layout), fx.layout)) # {}}

(* C28: the body lookup accepts from its candidate list only an element    *)
(* that is displayed and has y > 100; when no candidate yields one, the    *)
(* fallback takes the second contenteditable element if there are at least *)
(* two, the only one if there is exactly one, and otherwise the body is    *)
(* not found.                                                              *)
C28_BodyResolution ==
    (pc = "layout" /\ fx.stage = "done") =>
        /\ (fx.via = "list" <=> BodyYielding # {})
        /\ (fx.via = "list" =>
              /\ fx.body \in 1..Len(fx.layout)
              /\ fx.layout[fx.body].vis = "ok")
        /\ (BodyYielding = {} /\ Cardinality(Editables) >= 2 =>
              /\ fx.via = "fallback"
              /\ fx.body \in Editables
              /\ Cardinality({i \in Editables : i < fx.body}) = 1)
        /\ (BodyYielding = {} /\ Cardinality(Editables) = 1 =>
              fx.via = "fallback" /\ Editables = {fx.body})
        /\ (BodyYielding = {} /\ Editables = {} =>
              fx.via = "none" /\ fx.body = 0)

C28_Witness ==
    /\ pc = "layout" /\ fx.stage = "done"
    /\ fx.via = "fallback"
    /\ Cardinality(Editables) = 3
    /\ fx.body = 2

(* C29: for every page layout, the element chosen as the body input is     *)
(* never the element chosen as the title input.                            *)
C29_BodyIsNotTitle ==
    (pc = "layout" /\ fx.stage = "done" /\ fx.title # 0) => fx.body # fx.title


(* C31: one call of the rate_limited_request wrapper invokes the wrapped    *)
(* work at least once and at most MAX_RETRIES times, and ends either by     *)
(* returning the value of the work's successful invocation, which is then   *)
(* the last invocation, or by raising; it never returns None after failed   *)
(* invocations.                                                             *)
C31_WrapperReturnsValueOrRaises ==
    (variant = "api" /\ rl_pc # "idle") =>
        /\ Len(outcomes) <= MAX_RETRIES
        /\ rl_value # "None"
        /\ (rl_pc \in {"returned", "raised"} => Len(outcomes) >= 1)
        /\ (rl_pc = "returned" =>
              /\ rl_value = "value" /\ rl_error = NoError
              /\ outcomes[Len(outcomes)] = NoError
              /\ \A i \in 1..(Len(outcomes) - 1) : outcomes[i] # NoError)
        /\ (rl_pc = "raised" =>
              /\ rl_value = "" /\ rl_error # NoError
              /\ \A i \in 1..Len(outcomes) : outcomes[i] # NoError
              /\ rl_error = outcomes[Len(outcomes)])

C31_Witness ==
    /\ variant = "api" /\ rl_pc = "raised"
    /\ Len(outcomes) = MAX_RETRIES /\ Len(sleeps) = MAX_RETRIES + 1

(* C32: in post_to_note the cookie set is produced once and shared read-    *)
(* only: it is harvested in the step that quits the login browser, before   *)
(* any request is sent; no later step changes it; and every create, upload  *)
(* and update request is sent, with the browser quit, by a session that     *)
(* holds the harvested set.                                                 *)
C32_AuthContextProducedOnce ==
    [][variant = "api" =>
          /\ (cookies' # cookies =>
                /\ ~cookies /\ cookies'
                /\ requests = <<>> /\ login.submits = 0
                /\ driver = "open" /\ driver' = "quit")
          /\ (requests' # requests =>
                /\ Len(requests') = Len(requests) + 1
                /\ SubSeq(requests', 1, Len(requests)) = requests
                /\ requests'[Len(requests')].auth = TRUE
                /\ cookies /\ cookies'
                /\ driver = "quit" /\ driver' = "quit"
                /\ login.submits = 1)]_vars

C32_Witness ==
    /\ variant = "api" /\ cookies /\ driver = "quit"
    /\ {requests[i].op : i \in 1..Len(requests)} = {"create", "upload", "update"}
    /\ \A i \in 1..Len(requests) : requests[i].auth

\* The number of lists open behind the first n entries of html_lines.
ListDepth(html, n) ==
    Cardinality({i \in 1..n : html[i].tag = "ul"})
        - Cardinality({i \in 1..n : html[i].tag = "/ul"})

(* C33: in the API variant's markdown_to_html the list state is well formed *)
(* for every input: every <li> is emitted while a list is open, every <ul>  *)
(* is closed by exactly one </ul>, lists are never nested, and no heading,  *)
(* paragraph or code block is emitted while a list is open.                 *)
C33_ListStateWellFormed ==
    pc = "markdown" =>
        LET html == fx.s.html_lines
        IN  /\ \A i \in 1..Len(html) :
                  CASE html[i].tag = "ul"  -> ListDepth(html, i - 1) = 0
                    [] html[i].tag = "/ul" -> ListDepth(html, i - 1) = 1
                    [] html[i].tag = "li"  -> ListDepth(html, i - 1) = 1
                    [] OTHER               -> ListDepth(html, i - 1) = 0
            /\ (fx.done => ListDepth(html, Len(html)) = 0)

\* The lines of the input between an opening fence and its closing fence,
\* or the end of the input, one sequence per code block.
RECURSIVE FencedRegions(_, _, _)
FencedRegions(ls, inside, cur) ==
    IF ls = <<>> THEN (IF inside /\ cur # <<>> THEN <<cur>> ELSE <<>>)
    ELSE IF IsFence(Head(ls))
    THEN IF inside THEN <<cur>> \o FencedRegions(Tail(ls), FALSE, <<>>)
                   ELSE FencedRegions(Tail(ls), TRUE, <<>>)
    ELSE IF inside THEN FencedRegions(Tail(ls), TRUE, Append(cur, Head(ls)))
    ELSE FencedRegions(Tail(ls), FALSE, <<>>)

\* The lines of the input outside every code block that are no fence and
\* not blank.
RECURSIVE OutsideLines(_, _)
OutsideLines(ls, inside) ==
    IF ls = <<>> THEN <<>>
    ELSE IF IsFence(Head(ls)) THEN OutsideLines(Tail(ls), ~inside)
    ELSE IF inside \/ Strip(Head(ls)) = <<>> THEN OutsideLines(Tail(ls), inside)
    ELSE <<Head(ls)>> \o OutsideLines(Tail(ls), inside)

TagFilter(html, tags) == SelectSeq(html, LAMBDA b : b.tag \in tags)

(* C34: in the API variant's markdown_to_html the lines between an opening  *)
(* and a closing code fence are emitted verbatim, exactly once, inside one  *)
(* <pre><code> wrapper per code block, and no content line of the input is  *)
(* dropped, also when the input ends while a fence is open.                 *)
C34_CodeLinesVerbatimNoneDropped ==
    (pc = "markdown" /\ fx.done) =>
        LET pres    == TagFilter(fx.s.html_lines, {"pre"})
            regions == FencedRegions(fx.lines, FALSE, <<>>)
        IN  /\ Len(pres) = Len(regions)
            /\ \A i \in 1..Len(pres) : pres[i].content = Join(regions[i])
            /\ Len(TagFilter(fx.s.html_lines, {"h2", "h3", "li", "p"}))
                 = Len(OutsideLines(fx.lines, FALSE))

=============================================================================
